---- MODULE Spec2Model ----
(***************************************************************************)
(* Factor management service of zquant (services/factor.py): the tables of *)
(* factor definitions, factor models and factor configurations, the        *)
(* operations of FactorService that write them, and get_model_for_code,    *)
(* the resolver that selects the model of a (factor, stock code) pair.     *)
(* The turnover-rate calculator is modelled from its contract and tests.   *)
(***************************************************************************)
EXTENDS Integers, Sequences, FiniteSets, TLC

(* ------------------------------ bounds -------------------------------- *)

\* Highest AUTO_INCREMENT id a factor definition gets in a run.
NumFactors == 2
\* Highest AUTO_INCREMENT id a factor model gets in a run.
MaxModelId == 2
\* Longest "mappings" list of a configuration dict.
MaxMappings == 2
\* Committed writes in one run of the service.
MaxWrites == 4
\* Committed writes in one run that also writes the definitions' own
\* configurations.
MaxDefinitionWrites == 2
\* Trade dates of the daily-basic table: 1..MaxDate.
MaxDate == 2
\* Highest turnover rate of a row.
MaxValue == 1
\* Most rows one call of get_daily_basic_data returns.
MaxFetched == 3
\* Largest "window" of the moving-average calls.
MaxWindow == 2
\* Invocations that run concurrently.
NumThreads == 2
\* HTTP requests of a run.
MaxRequests == 2
\* Largest max_retries of a retry_on_failure and largest initial delay.
MaxRetries == 3
MaxDelay == 2
\* Calls of a function wrapped by cache_result.
MaxCalls == 3
\* Types converted one after the other.
MaxConverted == 2
\* Calls of order_by on one QueryBuilder and fields of one call.
MaxOrderCalls == 3
MaxOrderFields == 2

FactorIds == 1..NumFactors
ModelIds == 1..MaxModelId
\* Stock codes: queried codes and members of a mapping's "codes".
Codes == {"X", "Y"}

(* ------------------------------- data --------------------------------- *)

\* A mapping dict {"model_id": ..., "codes": ...}.  model_id 0 stands for a
\* falsy model_id (absent, None or 0); codes {} for falsy codes (absent,
\* None or []).
Mappings == [model_id : 0..MaxModelId, codes : SUBSET Codes]

RECURSIVE SeqsUpTo(_, _)
SeqsUpTo(S, n) ==
    IF n = 0 THEN {<<>>}
    ELSE LET shorter == SeqsUpTo(S, n - 1)
         IN  shorter \cup {Append(s, x) : s \in {t \in shorter : Len(t) = n - 1}, x \in S}

MappingLists == SeqsUpTo(Mappings, MaxMappings)

\* A configuration dict {"enabled": ..., "mappings": [...]}; enabled is
\* "Absent" when the dict has no such key.
ConfigDicts == [enabled : {"True", "False", "Absent"}, mappings : MappingLists]

\* The empty dict {}.
EmptyConfig == [enabled |-> "Absent", mappings |-> <<>>]

\* Factor names (factor_name is UNIQUE) and rows of
\* zq_quant_factor_definitions.
FactorNames == 1..NumFactors
FactorRows == [id : FactorIds, factor_name : FactorNames]

\* Rows of zq_quant_factor_models.
ModelRows == [id : ModelIds, factor_id : FactorIds, is_default : BOOLEAN, enabled : BOOLEAN]

\* Rows of zq_quant_factor_configs.
ConfigRows == [factor_id : FactorIds, config : ConfigDicts]

(* What a call gives back: a model, None, success of a write, or the
   exception it raises. *)
RetModel(m) == [kind |-> "model", id |-> m]
RetNone == [kind |-> "None", id |-> 0]
RetOk == [kind |-> "ok", id |-> 0]
Raise(e) == [kind |-> e, id |-> 0]
NoCall == [kind |-> "nocall", id |-> 0]

VARIABLES
    factors,      \* rows of zq_quant_factor_definitions (id, factor_name)
    legacy,       \* factor id -> the definition's own factor_config dict
    models,       \* rows of zq_quant_factor_models
    nextModelId,  \* next AUTO_INCREMENT id of zq_quant_factor_models
    configs,      \* rows of zq_quant_factor_configs
    writes,       \* committed writes so far
    op,           \* the last call: its name
    argF,         \* the last call: its factor id (0: none)
    argCode,      \* the last call: its stock code ("": none)
    argCfg,       \* the last call: its configuration dict, where recorded
    ret,          \* the last call: what it gave back
    observations, \* trade date -> the daily-basic row of the stock code
    calcConfig,   \* the calculator's config
    asOfDate,     \* the trade_date calculate is called with
    fetched,      \* the rows get_daily_basic_data returns for a date range
    fetchRaises,  \* get_daily_basic_data raises instead of returning
    calculator,   \* the attributes of the TurnoverRateCalculator built last
    inv,          \* concurrent invocations: each one's arguments, position and result
    scratch,      \* the local variables of each invocation's frame
    http,         \* the last HTTP request: endpoint, caller, status, service calls made
    session,      \* a database session: its transaction's view of the configurations
    retry,        \* a call of a function wrapped by retry_on_failure
    cache,        \* the cache and a call of a function wrapped by cache_result
    convert,      \* a call of convert_sqlalchemy_type_to_mysql
    builder       \* a QueryBuilder and the last call on it

calcVars == <<observations, calcConfig, asOfDate, fetched, fetchRaises, calculator>>
threadVars == <<inv, scratch>>
utilVars == <<retry, cache, convert, builder>>
vars == <<factors, legacy, models, nextModelId, configs, writes, op, argF, argCode, argCfg, ret,
          observations, calcConfig, asOfDate, fetched, fetchRaises, calculator,
          inv, scratch, http, session, retry, cache, convert, builder>>
db == <<factors, legacy, models, nextModelId, configs>>

(* ------------------------ calculator: data ----------------------------- *)

Dates == 1..MaxDate
\* Columns of a daily-basic row a calculator config can name.
Fields == {"turnover_rate", "turnover_rate_f"}
\* What a row holds under a column: a number, None, a string that is not a
\* number, or no such key.
NumValue(n) == [kind |-> "num", v |-> n]
NullValue == [kind |-> "null", v |-> 0]
InvalidValue == [kind |-> "str", v |-> 0]
AbsentValue == [kind |-> "absent", v |-> 0]
FieldValues == {NumValue(n) : n \in 0..MaxValue} \cup {NullValue, InvalidValue, AbsentValue}
NoRow == [present |-> FALSE, values |-> [fld \in Fields |-> AbsentValue]]
DailyRows == {NoRow} \cup [present : {TRUE}, values : [Fields -> FieldValues]]
\* TurnoverRateCalculator(config={"source": "daily_basic", "field": ...}):
\* no "method".
RawConfigs == [field : Fields, method : {"None"}]
RetValue(n) == [kind |-> "value", id |-> n]
\* No calculator has been built.
NoCalculator == [source |-> "", field |-> "", method |-> "None", window |-> 0]

\* The service's calls leave the calculator's inputs alone.
CalcIdle ==
    /\ observations = [d \in Dates |-> NoRow]
    /\ calcConfig = [field |-> "turnover_rate", method |-> "None"]
    /\ asOfDate = 1
    /\ fetched = <<>>
    /\ fetchRaises = FALSE
    /\ calculator = NoCalculator

\* No invocation runs concurrently.
ThreadsIdle ==
    /\ inv = <<>>
    /\ scratch = <<>>

\* No HTTP request has been answered.
NoRequest == [endpoint |-> "", admin |-> FALSE, status |-> 0, called |-> <<>>, n |-> 0]

ApiIdle == http = NoRequest

\* No session holds uncommitted changes.
SessionIdle == session = NoCall

\* No utility has been called.
UtilsIdle ==
    /\ retry = NoCall
    /\ cache = NoCall
    /\ convert = NoCall
    /\ builder = NoCall

(* ----------------------------- resolver ------------------------------- *)

\* get_factor_definition: the factor exists.
FactorExists(fs, f) == \E r \in fs : r.id = f

\* A get_factor_model that finds enabled models only.
GetEnabledFactorModel(ms, id) ==
    IF \E m \in ms : m.id = id /\ m.enabled THEN RetModel(id) ELSE Raise("NotFoundError:model")

\* get_factor_model: the model with this id, or NotFoundError.
GetFactorModel(ms, id) ==
    IF \E m \in ms : m.id = id THEN RetModel(id) ELSE Raise("NotFoundError:model")

\* get_default_factor_model: the rows the query's filter keeps; first() gives
\* one of them (the query has no ORDER BY), None when there is none.
DefaultModelsAnyEnabledFlag(ms, f) ==
    {m.id : m \in {r \in ms : r.factor_id = f /\ r.is_default}}

DefaultFactorModels(ms, f) ==
    {m.id : m \in {r \in ms : r.factor_id = f /\ r.is_default /\ r.enabled}}

GetDefaultFactorModel(ms, f) ==
    IF DefaultFactorModels(ms, f) = {} THEN {RetNone}
    ELSE {RetModel(id) : id \in DefaultFactorModels(ms, f)}

\* not config.get("enabled", True)
ConfigAlwaysEnabled(c) == TRUE

ConfigEnabled(c) == c.enabled # "False"

Min(S) == CHOOSE x \in S : \A y \in S : x <= y
Max(S) == CHOOSE x \in S : \A y \in S : x >= y

\* First loop: index of the first mapping with truthy codes that hold the
\* code, 0 when the loop ends without one.
SpecificMatches(ms, code) == {i \in 1..Len(ms) : ms[i].codes # {} /\ code \in ms[i].codes}

LastSpecific(ms, code) ==
    IF SpecificMatches(ms, code) = {} THEN 0 ELSE Max(SpecificMatches(ms, code))

FirstSpecificOrDefault(ms, code) ==
    LET hits == {i \in 1..Len(ms) : ms[i].codes = {} \/ code \in ms[i].codes}
    IN  IF hits = {} \/ ms[Min(hits)].codes = {} THEN 0 ELSE Min(hits)

FirstSpecificWithModel(ms, code) ==
    LET hits == {i \in SpecificMatches(ms, code) : ms[i].model_id # 0}
    IN  IF hits = {} THEN 0 ELSE Min(hits)

FirstSpecific(ms, code) ==
    IF SpecificMatches(ms, code) = {} THEN 0 ELSE Min(SpecificMatches(ms, code))

\* Second loop: index of the first mapping with falsy codes, 0 when none.
FirstDefault(ms) ==
    LET hits == {i \in 1..Len(ms) : ms[i].codes = {}}
    IN  IF hits = {} THEN 0 ELSE Min(hits)

\* The body of both loops once a mapping is selected: its model when
\* model_id is truthy, else the factor's default model.
ModelOfMapping(tbl, f, mp) ==
    IF mp.model_id # 0 THEN {GetFactorModel(tbl, mp.model_id)}
    ELSE GetDefaultFactorModel(tbl, f)

\* get_model_for_code: the set of results the call can give (one, unless
\* the factor has several enabled default models).
GetModelForCode(fs, tbl, cfgs, f, code) ==
    IF ~FactorExists(fs, f) THEN {Raise("NotFoundError:factor")}
    ELSE IF ~\E r \in cfgs : r.factor_id = f
         THEN {Raise("AttributeError")}        \* factor_def.config is None
    ELSE LET c == (CHOOSE r \in cfgs : r.factor_id = f).config
             ms == c.mappings
         IN  IF ~ConfigEnabled(c) THEN {RetNone}
             ELSE IF FirstSpecific(ms, code) # 0
                  THEN ModelOfMapping(tbl, f, ms[FirstSpecific(ms, code)])
             ELSE IF FirstDefault(ms) # 0
                  THEN ModelOfMapping(tbl, f, ms[FirstDefault(ms)])
             ELSE GetDefaultFactorModel(tbl, f)

\* A get_model_for_code that drops the configuration it fails on.
ResolveDroppingConfig(f, code) ==
    /\ \E r \in GetModelForCode(factors, models, configs, f, code) : ret' = r
    /\ op' = "get_model_for_code"
    /\ argF' = f
    /\ argCode' = code
    /\ configs' = IF ret'.kind \in {"model", "None"} THEN configs
                  ELSE {r \in configs : r.factor_id # f}
    /\ UNCHANGED <<factors, legacy, models, nextModelId>>

\* A call of get_model_for_code(db, f, code): reads, writes nothing.
Resolve(f, code) ==
    /\ \E r \in GetModelForCode(factors, models, configs, f, code) : ret' = r
    /\ op' = "get_model_for_code"
    /\ argF' = f
    /\ argCode' = code
    /\ UNCHANGED db

(* --------------- the resolver over an arbitrary stored state ----------- *)

\* Every stored state of one factor (id 1), its models and its
\* configuration row; a factor has at most one default model when models
\* are written one call at a time.
InitResolve ==
    /\ factors = {[id |-> 1, factor_name |-> 1]}
    /\ legacy = [f \in FactorIds |-> EmptyConfig]
    /\ models \in {ms \in SUBSET {r \in ModelRows : r.factor_id = 1} :
                     /\ \A a, b \in ms : a.id = b.id => a = b
                     /\ Cardinality({r \in ms : r.is_default}) <= 1}
    /\ nextModelId = MaxModelId + 1
    /\ configs \in {{}} \cup {{[factor_id |-> 1, config |-> c]} : c \in ConfigDicts}
    /\ writes = 0
    /\ op = "init"
    /\ argF = 0
    /\ argCode = ""
    /\ argCfg = EmptyConfig
    /\ ret = NoCall
    /\ CalcIdle
    /\ ThreadsIdle
    /\ ApiIdle
    /\ SessionIdle
    /\ UtilsIdle

\* One call on the stored state: a call stores nothing, so a second call
\* would find what the first one found.
NextResolve ==
    /\ op = "init"
    /\ \E f \in {r.id : r \in factors}, code \in Codes : Resolve(f, code)
    /\ UNCHANGED <<writes, argCfg, calcVars, threadVars, http, session, utilVars>>

SpecResolve == InitResolve /\ [][NextResolve]_vars

(* ------------------- properties of get_model_for_code ------------------ *)

\* The last call was get_model_for_code on a factor that has a
\* configuration row; the tables are those the call read.
Resolved == op = "get_model_for_code" /\ \E r \in configs : r.factor_id = argF
ResolvedConfig == (CHOOSE r \in configs : r.factor_id = argF).config
ResolvedMappings == ResolvedConfig.mappings
ModelIdExists(id) == \E m \in models : m.id = id
\* Positions of the mappings whose codes hold the resolved code, and of the
\* mappings without codes.
HoldingCode == {i \in 1..Len(ResolvedMappings) : argCode \in ResolvedMappings[i].codes}
WithoutCodes == {i \in 1..Len(ResolvedMappings) : ResolvedMappings[i].codes = {}}
\* What the fallback to the factor's default model gives: the model of the
\* factor that is is_default and enabled, None when there is none.
EnabledDefaultOrNone ==
    IF \E m \in models : m.factor_id = argF /\ m.is_default /\ m.enabled
    THEN {RetModel(m.id) : m \in {r \in models : r.factor_id = argF /\ r.is_default /\ r.enabled}}
    ELSE {RetNone}

\* C1: whenever the stored configuration has enabled = false,
\* get_model_for_code returns None, whatever the mappings, the code and the
\* factor's models are.
C1_DisabledGivesNone ==
    (Resolved /\ ResolvedConfig.enabled = "False") => ret = RetNone

\* C1 witness: a disabled configuration whose first mapping names the code
\* with an existing model, on a factor with an enabled default model.
C1_Witness ==
    /\ Resolved /\ ResolvedConfig.enabled = "False"
    /\ HoldingCode # {} /\ \A i \in HoldingCode : ModelIdExists(ResolvedMappings[i].model_id)
    /\ \E m \in models : m.factor_id = argF /\ m.is_default /\ m.enabled
    /\ ret = RetNone

\* The configuration holds exactly a specific mapping (position a) and a
\* default mapping (position b), both naming existing models.
SpecificAndDefault(a, b) ==
    /\ Len(ResolvedMappings) = 2 /\ {a, b} = {1, 2}
    /\ ResolvedMappings[a].codes # {} /\ ResolvedMappings[b].codes = {}
    /\ ModelIdExists(ResolvedMappings[a].model_id)
    /\ ModelIdExists(ResolvedMappings[b].model_id)

\* C2: on an enabled configuration of a specific mapping A and a default
\* mapping B, a code of A resolves to A's model and any other code to B's
\* model, in both stored orders of A and B.
C2_SpecificThenDefault ==
    \A a, b \in 1..2 :
        (Resolved /\ ResolvedConfig.enabled # "False" /\ SpecificAndDefault(a, b)) =>
            /\ argCode \in ResolvedMappings[a].codes => ret = RetModel(ResolvedMappings[a].model_id)
            /\ argCode \notin ResolvedMappings[a].codes => ret = RetModel(ResolvedMappings[b].model_id)

\* C2 witness: the default mapping is stored first, the two models differ
\* and the code of the specific mapping got the specific model.
C2_Witness ==
    /\ Resolved /\ ResolvedConfig.enabled # "False" /\ SpecificAndDefault(2, 1)
    /\ ResolvedMappings[1].model_id # ResolvedMappings[2].model_id
    /\ argCode \in ResolvedMappings[2].codes
    /\ ret = RetModel(ResolvedMappings[2].model_id)

\* C3: when several non-default mappings hold the code, the result is the
\* one the first of them gives (its model, the error of looking up its
\* missing model, or the default model when it names none); the later ones
\* change nothing.
C3_FirstSpecificWins ==
    (Resolved /\ ResolvedConfig.enabled # "False" /\ Cardinality(HoldingCode) >= 2) =>
        LET first == ResolvedMappings[Min(HoldingCode)]
        IN  /\ (first.model_id # 0 /\ ModelIdExists(first.model_id)) => ret = RetModel(first.model_id)
            /\ (first.model_id # 0 /\ ~ModelIdExists(first.model_id)) => ret = Raise("NotFoundError:model")
            /\ first.model_id = 0 => ret \in EnabledDefaultOrNone

\* C3 witness: two mappings hold the code and name different existing
\* models; the first one's model was returned.
C3_Witness ==
    /\ Resolved /\ ResolvedConfig.enabled # "False" /\ Cardinality(HoldingCode) >= 2
    /\ \A i \in HoldingCode : ModelIdExists(ResolvedMappings[i].model_id)
    /\ ResolvedMappings[Min(HoldingCode)].model_id # ResolvedMappings[Max(HoldingCode)].model_id
    /\ ret = RetModel(ResolvedMappings[Min(HoldingCode)].model_id)

\* No mapping of the enabled configuration holds the code and none is a
\* default mapping.
NothingMatches ==
    Resolved /\ ResolvedConfig.enabled # "False" /\ HoldingCode = {} /\ WithoutCodes = {}

\* C4 as stated: when nothing matches, the result is the factor's model
\* flagged is_default, and None when the factor has no model so flagged.
C4_Original ==
    NothingMatches =>
        IF \E m \in models : m.factor_id = argF /\ m.is_default
        THEN \E m \in models : m.factor_id = argF /\ m.is_default /\ ret = RetModel(m.id)
        ELSE ret = RetNone

\* C4 amended: when nothing matches (also with zero mappings), the result
\* is the factor's model that is flagged is_default and is enabled, and None
\* when the factor has no such model.
C4_FallbackToEnabledDefault ==
    NothingMatches => ret \in EnabledDefaultOrNone

\* C4 witness: zero mappings, and the factor's enabled default model came
\* back.
C4_Witness ==
    /\ NothingMatches /\ ResolvedMappings = <<>>
    /\ \E m \in models : m.factor_id = argF /\ m.is_default /\ m.enabled /\ ret = RetModel(m.id)

\* The mapping get_model_for_code selects: the first that holds the code,
\* else the first without codes (0: none).
SelectedMapping ==
    IF HoldingCode # {} THEN Min(HoldingCode)
    ELSE IF WithoutCodes # {} THEN Min(WithoutCodes) ELSE 0

C30_MappedModelIgnoresEnabled ==
    (Resolved /\ ResolvedConfig.enabled # "False") =>
        IF SelectedMapping # 0 /\ ResolvedMappings[SelectedMapping].model_id # 0
        THEN ModelIdExists(ResolvedMappings[SelectedMapping].model_id) =>
                ret = RetModel(ResolvedMappings[SelectedMapping].model_id)
        ELSE /\ ret \in EnabledDefaultOrNone
             /\ (~\E m \in models : m.factor_id = argF /\ m.is_default /\ m.enabled) => ret = RetNone

\* C30 witness: the selected mapping names a disabled model, which came
\* back, while the factor's default model is disabled too.
C30_Witness ==
    /\ Resolved /\ ResolvedConfig.enabled # "False"
    /\ SelectedMapping # 0
    /\ \E m \in models :
          /\ m.id = ResolvedMappings[SelectedMapping].model_id
          /\ ~m.enabled /\ ~m.is_default
          /\ ret = RetModel(m.id)
    /\ \E m \in models : m.factor_id = argF /\ m.is_default /\ ~m.enabled

(* --------------------------- write operations -------------------------- *)

\* The validation loop's verdict on one mapping: model_id must be truthy
\* and get_factor_model must find it.
MappingError(tbl, mp) ==
    IF mp.model_id = 0 THEN Raise("ValueError:model_id")
    ELSE IF GetFactorModel(tbl, mp.model_id).kind # "model" THEN Raise("NotFoundError:model")
    ELSE RetOk

\* sum(1 for m in mappings if not m.get("codes"))
DefaultCount(ms) == Cardinality({i \in 1..Len(ms) : ms[i].codes = {}})

\* default_count > 1
MoreThanTwoDefaults(n) == n > 2

TooManyDefaults(n) == n > 1

\* The validation of create_factor_config, update_factor_config_by_factor_id
\* and update_factor_config: the first mapping the loop rejects raises, then
\* the count of default mappings is checked.
ValidateConfig(tbl, c) ==
    LET ms == c.mappings
        bad == {i \in 1..Len(ms) : MappingError(tbl, ms[i]) # RetOk}
    IN  IF bad # {} THEN MappingError(tbl, ms[Min(bad)])
        ELSE IF TooManyDefaults(DefaultCount(ms)) THEN Raise("ValueError:default")
        ELSE RetOk

\* What a call leaves in a table: the new rows once it reached db.commit(),
\* the old ones when it raised before.
PersistedAnyway(r, old, new) == new

Persisted(r, old, new) == IF r = RetOk THEN new ELSE old

Committed(r) == IF r = RetOk THEN 1 ELSE 0

Called(name, f, r) ==
    /\ op' = name
    /\ argF' = f
    /\ argCode' = ""
    /\ ret' = r

\* create_factor_definition(db, factor_name, ..., factor_config); a falsy
\* factor_config ({} or None) leaves the definition's configuration empty.
CreateFactorDefinitionResult(fs, name) ==
    IF \E r \in fs : r.factor_name = name THEN Raise("ValueError:exists") ELSE RetOk

CreateFactorDefinition(name, fc) ==
    LET r == CreateFactorDefinitionResult(factors, name)
        id == Cardinality(factors) + 1
    IN  /\ id \in FactorIds
        /\ factors' = Persisted(r, factors, factors \cup {[id |-> id, factor_name |-> name]})
        /\ legacy' = Persisted(r, legacy, [legacy EXCEPT ![id] = fc])
        /\ Called("create_factor_definition", IF r = RetOk THEN id ELSE 0, r)
        /\ UNCHANGED <<models, nextModelId, configs>>

\* update_factor_definition(db, factor_id, factor_config=fc); given is
\* FALSE for factor_config=None.
UpdateFactorDefinition(f, given, fc) ==
    LET r == IF FactorExists(factors, f) THEN RetOk ELSE Raise("NotFoundError:factor")
    IN  /\ legacy' = Persisted(r, legacy, IF given THEN [legacy EXCEPT ![f] = fc] ELSE legacy)
        /\ Called("update_factor_definition", f, r)
        /\ UNCHANGED <<factors, models, nextModelId, configs>>

\* update_factor_config(db, factor_id, factor_config): the definition's own
\* configuration, validated.
UpdateFactorConfigResult(fs, tbl, f, fc) ==
    IF ~FactorExists(fs, f) THEN Raise("NotFoundError:factor") ELSE ValidateConfig(tbl, fc)

UpdateFactorConfig(f, fc) ==
    LET r == UpdateFactorConfigResult(factors, models, f, fc)
    IN  /\ legacy' = Persisted(r, legacy, [legacy EXCEPT ![f] = fc])
        /\ Called("update_factor_config", f, r)
        /\ UNCHANGED <<factors, models, nextModelId, configs>>

\* An UPDATE that clears nothing.
KeepDefaults(tbl, f) == tbl

\* The UPDATE that clears is_default on the factor's default models.
ClearDefaults(tbl, f) ==
    {IF m.factor_id = f /\ m.is_default THEN [m EXCEPT !.is_default = FALSE] ELSE m : m \in tbl}

\* create_factor_model(db, factor_id, ..., is_default, enabled)
CreateFactorModel(f, isDefault, enabled) ==
    LET r == IF FactorExists(factors, f) THEN RetOk ELSE Raise("NotFoundError:factor")
        cleared == IF isDefault THEN ClearDefaults(models, f) ELSE models
        row == [id |-> nextModelId, factor_id |-> f, is_default |-> isDefault, enabled |-> enabled]
    IN  /\ nextModelId \in ModelIds
        /\ models' = Persisted(r, models, cleared \cup {row})
        /\ nextModelId' = nextModelId + Committed(r)
        /\ Called("create_factor_model", f, r)
        /\ UNCHANGED <<factors, legacy, configs>>

\* update_factor_model(db, model_id, is_default=isDefault, enabled=enabled);
\* "None" leaves the column alone.
UpdateFactorModel(id, isDefault, enabled) ==
    LET r == IF GetFactorModel(models, id).kind = "model" THEN RetOk ELSE Raise("NotFoundError:model")
    IN  /\ IF r = RetOk
           THEN LET old == CHOOSE m \in models : m.id = id
                    m1 == IF enabled = "None" THEN old ELSE [old EXCEPT !.enabled = (enabled = "True")]
                    rest == IF isDefault = "True"
                            THEN ClearDefaults(models \ {old}, old.factor_id)
                            ELSE models \ {old}
                    m2 == IF isDefault = "None" THEN m1 ELSE [m1 EXCEPT !.is_default = (isDefault = "True")]
                IN  models' = rest \cup {m2}
           ELSE models' = models
        /\ Called("update_factor_model", 0, r)
        /\ UNCHANGED <<factors, legacy, nextModelId, configs>>

\* delete_factor_model(db, model_id): no configuration is looked at.
DeleteFactorModel(id) ==
    LET r == IF GetFactorModel(models, id).kind = "model" THEN RetOk ELSE Raise("NotFoundError:model")
    IN  /\ models' = Persisted(r, models, {m \in models : m.id # id})
        /\ Called("delete_factor_model", 0, r)
        /\ UNCHANGED <<factors, legacy, nextModelId, configs>>

\* A create_factor_config without the test for an existing record.
CreateOverExisting(fs, tbl, cfgs, f, c) ==
    IF ~FactorExists(fs, f) THEN Raise("NotFoundError:factor")
    ELSE ValidateConfig(tbl, c)

\* create_factor_config(db, factor_id, config)
CreateFactorConfigResult(fs, tbl, cfgs, f, c) ==
    IF ~FactorExists(fs, f) THEN Raise("NotFoundError:factor")
    ELSE IF \E r \in cfgs : r.factor_id = f THEN Raise("ValueError:exists")
    ELSE ValidateConfig(tbl, c)

CreateFactorConfig(f, c) ==
    LET r == CreateFactorConfigResult(factors, models, configs, f, c)
    IN  /\ configs' = Persisted(r, configs, configs \cup {[factor_id |-> f, config |-> c]})
        /\ Called("create_factor_config", f, r)
        /\ UNCHANGED <<factors, legacy, models, nextModelId>>

\* update_factor_config_by_factor_id(db, factor_id, config)
UpdateFactorConfigByFactorIdResult(tbl, cfgs, f, c) ==
    IF ~\E r \in cfgs : r.factor_id = f THEN Raise("NotFoundError:config")
    ELSE ValidateConfig(tbl, c)

UpdateFactorConfigByFactorId(f, c) ==
    LET r == UpdateFactorConfigByFactorIdResult(models, configs, f, c)
    IN  /\ configs' = Persisted(r, configs,
                          {IF x.factor_id = f THEN [x EXCEPT !.config = c] ELSE x : x \in configs})
        /\ Called("update_factor_config_by_factor_id", f, r)
        /\ UNCHANGED <<factors, legacy, models, nextModelId>>

\* delete_factor_config_by_factor_id(db, factor_id)
DeleteFactorConfigByFactorId(f) ==
    LET r == IF \E x \in configs : x.factor_id = f THEN RetOk ELSE Raise("NotFoundError:config")
    IN  /\ configs' = Persisted(r, configs, {x \in configs : x.factor_id # f})
        /\ Called("delete_factor_config_by_factor_id", f, r)
        /\ UNCHANGED <<factors, legacy, models, nextModelId>>

(* ----------------------- the service, call by call --------------------- *)

Init ==
    /\ factors = {}
    /\ legacy = [f \in FactorIds |-> EmptyConfig]
    /\ models = {}
    /\ nextModelId = 1
    /\ configs = {}
    /\ writes = 0
    /\ op = "init"
    /\ argF = 0
    /\ argCode = ""
    /\ argCfg = EmptyConfig
    /\ ret = NoCall
    /\ CalcIdle
    /\ ThreadsIdle
    /\ ApiIdle
    /\ SessionIdle
    /\ UtilsIdle

Flags == {"None", "True", "False"}

\* The configuration dicts the calls of a run are given: with or without
\* enabled = false, each mapping a default one or one for code X.
CallConfigs ==
    {c \in ConfigDicts : /\ c.enabled # "Absent"
                         /\ \A i \in 1..Len(c.mappings) : c.mappings[i].codes \in {{}, {"X"}}}

\* The calls that write the tables of definitions, models and
\* configurations.
WriteCall ==
    \/ \E name \in FactorNames : CreateFactorDefinition(name, EmptyConfig)
    \/ \E f \in FactorIds, d, e \in BOOLEAN : CreateFactorModel(f, d, e)
    \/ \E id \in ModelIds, d, e \in Flags : UpdateFactorModel(id, d, e)
    \/ \E id \in ModelIds : DeleteFactorModel(id)
    \/ \E f \in FactorIds, c \in CallConfigs : CreateFactorConfig(f, c)
    \/ \E f \in FactorIds, c \in CallConfigs : UpdateFactorConfigByFactorId(f, c)
    \/ \E f \in FactorIds : DeleteFactorConfigByFactorId(f)

Next ==
    \/ /\ writes < MaxWrites
       /\ WriteCall
       /\ writes' = writes + Committed(ret')
       /\ UNCHANGED <<argCfg, calcVars, threadVars, http, session, utilVars>>
    \/ /\ \E f \in FactorIds, code \in Codes : Resolve(f, code)
       /\ UNCHANGED <<writes, argCfg, calcVars, threadVars, http, session, utilVars>>

Spec == Init /\ [][Next]_vars

(* ------- every path that writes a configuration, call by call ---------- *)

\* The calls that write a definition's own configuration.
DefinitionConfigCall ==
    \/ \E name \in FactorNames, fc \in CallConfigs : CreateFactorDefinition(name, fc)
    \/ \E f \in FactorIds, given \in BOOLEAN, fc \in CallConfigs : UpdateFactorDefinition(f, given, fc)
    \/ \E f \in FactorIds, fc \in CallConfigs : UpdateFactorConfig(f, fc)

NextAllWrites ==
    /\ writes < MaxDefinitionWrites
    /\ \/ DefinitionConfigCall
       \/ \E f \in FactorIds : CreateFactorModel(f, FALSE, TRUE)
       \/ \E f \in FactorIds, c \in CallConfigs : CreateFactorConfig(f, c)
       \/ \E f \in FactorIds, c \in CallConfigs : UpdateFactorConfigByFactorId(f, c)
    /\ writes' = writes + Committed(ret')
    /\ UNCHANGED <<argCfg, calcVars, threadVars, http, session, utilVars>>

SpecAllWrites == Init /\ [][NextAllWrites]_vars

(* ------------- configuration writes over a stored state ---------------- *)

\* A configuration that passes validation whatever the models are.
StoredSample == [enabled |-> "False", mappings |-> <<>>]

\* The configuration dicts a validated write is given: any enabled, any
\* model ids, each mapping a default one or one for code X (validation
\* reads of "codes" only whether it is falsy).
ValidationInputs ==
    {c \in ConfigDicts : \A i \in 1..Len(c.mappings) : c.mappings[i].codes \in {{}, {"X"}}}

\* Two factors exist, any of the models exists, each factor has no
\* configuration row or a valid one, and argCfg is the configuration dict
\* the calls of the run are given.
InitConfigWrites ==
    /\ factors = {[id |-> f, factor_name |-> f] : f \in {1, 2}}
    /\ legacy = [f \in FactorIds |-> EmptyConfig]
    /\ \E ids \in SUBSET ModelIds :
          models = {[id |-> i, factor_id |-> 1, is_default |-> FALSE, enabled |-> TRUE] : i \in ids}
    /\ nextModelId = MaxModelId + 1
    /\ \E fs \in SUBSET {1, 2} :
          configs = {[factor_id |-> f, config |-> StoredSample] : f \in fs}
    /\ writes = 0
    /\ op = "init"
    /\ argF = 0
    /\ argCode = ""
    /\ argCfg \in ValidationInputs
    /\ ret = NoCall
    /\ CalcIdle
    /\ ThreadsIdle
    /\ ApiIdle
    /\ SessionIdle
    /\ UtilsIdle

NextConfigWrites ==
    /\ UNCHANGED <<writes, argCfg, calcVars, threadVars, http, session, utilVars>>
    /\ \/ \E f \in {r.id : r \in factors} : CreateFactorConfig(f, argCfg)
       \/ \E f \in {r.id : r \in factors} : UpdateFactorConfigByFactorId(f, argCfg)

SpecConfigWrites == InitConfigWrites /\ [][NextConfigWrites]_vars

(* ------------------ properties of the configuration writes ------------- *)

HasConfigRow(cfgs, f) == \E r \in cfgs : r.factor_id = f
AllModelIdsExist(tbl, c) ==
    \A i \in 1..Len(c.mappings) : \E m \in tbl : m.id = c.mappings[i].model_id
\* The step is a call of create_factor_config or
\* update_factor_config_by_factor_id that gets as far as validating the
\* configuration: the factor exists and has no row yet, or has the row to
\* update.
ReachesValidation ==
    \/ op' = "create_factor_config" /\ FactorExists(factors, argF') /\ ~HasConfigRow(configs, argF')
    \/ op' = "update_factor_config_by_factor_id" /\ HasConfigRow(configs, argF')

\* C6: create_factor_config and update_factor_config_by_factor_id accept
\* (commit and store) every configuration with at most one mapping without
\* codes whose model_ids all name existing models, and reject every
\* configuration with two or more mappings without codes.
C6_ValidationAcceptsAndRejects ==
    [][ReachesValidation =>
          /\ (DefaultCount(argCfg.mappings) <= 1 /\ AllModelIdsExist(models, argCfg))
                => /\ ret' = RetOk
                   /\ [factor_id |-> argF', config |-> argCfg] \in configs'
          /\ DefaultCount(argCfg.mappings) >= 2 => ret' # RetOk]_vars

\* C6: an update was accepted whose configuration has a mapping for code X
\* and one default mapping.
C6_Witness ==
    /\ op = "update_factor_config_by_factor_id"
    /\ ret = RetOk
    /\ Len(argCfg.mappings) = 2
    /\ DefaultCount(argCfg.mappings) = 1
    /\ [factor_id |-> argF, config |-> argCfg] \in configs

\* C7: a call of create_factor_config or update_factor_config_by_factor_id
\* that raises leaves every table as it was: the stored configuration of
\* the call's factor and of every other factor is unchanged.
C7_RejectedWritePersistsNothing ==
    [][(op' \in {"create_factor_config", "update_factor_config_by_factor_id"} /\ ret' # RetOk)
          => db' = db]_vars

\* C7: an update with two default mappings was rejected and the factor's
\* row still holds the configuration stored before.
C7_Witness ==
    /\ op = "update_factor_config_by_factor_id"
    /\ ret = Raise("ValueError:default")
    /\ argCfg # StoredSample
    /\ [factor_id |-> argF, config |-> StoredSample] \in configs

\* Every configuration the tables hold: the rows of zq_quant_factor_configs
\* and the definitions' own configurations.
StoredConfigs == {r.config : r \in configs} \cup {legacy[r.id] : r \in factors}

\* C8: every stored configuration has at most one mapping without codes and
\* every model_id it names is the id of a model (no model is deleted in
\* these runs, so a model that existed at the write still exists).
C8_Original ==
    \A c \in StoredConfigs :
        /\ DefaultCount(c.mappings) <= 1
        /\ \A i \in 1..Len(c.mappings) :
              c.mappings[i].model_id # 0 => ModelIdExists(c.mappings[i].model_id)

\* C9: get_model_for_code on an existing factor never raises the
\* NotFoundError of a model lookup.
C9_Original ==
    (op = "get_model_for_code" /\ FactorExists(factors, argF))
        => ret # Raise("NotFoundError:model")

(* ---------------------- turnover-rate calculator ----------------------- *)

\* DataService.get_daily_basic_data(db, ts_code, start_date, end_date): the
\* rows of the code dated start_date..end_date.
RECURSIVE GetDailyBasicData(_, _, _)
GetDailyBasicData(store, start, end) ==
    IF start > end THEN <<>>
    ELSE (IF store[start].present
          THEN <<[trade_date |-> start, values |-> store[start].values]>>
          ELSE <<>>) \o GetDailyBasicData(store, start + 1, end)

\* The column calculate reads.
FixedField(cfg) == "turnover_rate"

FieldRead(cfg) == cfg.field

\* calculate without "method": the value of the row dated trade_date.
ValueOfFetched(data, cfg) ==
    IF data = <<>> THEN RetNone
    ELSE LET value == data[1].values[FieldRead(cfg)]
         IN  IF value.kind = "num" THEN RetValue(value.v) ELSE RetNone

CalculateRaw(store, d, cfg) == ValueOfFetched(GetDailyBasicData(store, d, d), cfg)

\* TurnoverRateCalculator(config=cfg).calculate(db, code, d)
Calculate(d, cfg) ==
    /\ calcConfig' = cfg
    /\ asOfDate' = d
    /\ ret' = CalculateRaw(observations, d, cfg)
    /\ Called("calculate", 0, ret')
    /\ UNCHANGED <<db, writes, argCfg, observations, fetched, fetchRaises, calculator, threadVars, http, session, utilVars>>

\* Any daily-basic table of the code; the service's tables are empty.
InitCalc ==
    /\ factors = {}
    /\ legacy = [f \in FactorIds |-> EmptyConfig]
    /\ models = {}
    /\ nextModelId = 1
    /\ configs = {}
    /\ writes = 0
    /\ op = "init"
    /\ argF = 0
    /\ argCode = ""
    /\ argCfg = EmptyConfig
    /\ ret = NoCall
    /\ observations \in [Dates -> DailyRows]
    /\ calcConfig = [field |-> "turnover_rate", method |-> "None"]
    /\ asOfDate = 1
    /\ fetched = <<>>
    /\ fetchRaises = FALSE
    /\ calculator = NoCalculator
    /\ ThreadsIdle
    /\ ApiIdle
    /\ SessionIdle
    /\ UtilsIdle

NextCalc == \E d \in Dates, cfg \in RawConfigs : Calculate(d, cfg)

SpecCalc == InitCalc /\ [][NextCalc]_vars

\* C10: calculate without "method" returns the value the row dated
\* trade_date holds under the config's field when that value is a number,
\* and None when there is no such row or the value is None, missing or not
\* a number.
C10_RawModeValue ==
    (op = "calculate" /\ calcConfig.method = "None") =>
        LET row == observations[asOfDate]
            value == row.values[calcConfig.field]
        IN  IF row.present /\ value.kind = "num"
            THEN ret = RetValue(value.v)
            ELSE ret = RetNone

\* C10: calculate returned the number under turnover_rate_f of the row of
\* its date, while that row's turnover_rate is another number and the row
\* of another date holds no number.
C10_Witness ==
    /\ op = "calculate"
    /\ calcConfig = [field |-> "turnover_rate_f", method |-> "None"]
    /\ ret = RetValue(1)
    /\ observations[asOfDate].values["turnover_rate"] = NumValue(0)
    /\ \E d \in Dates \ {asOfDate} :
          observations[d].present /\ observations[d].values["turnover_rate_f"] = InvalidValue

(* ---------------- calculator: config and moving average ---------------- *)

\* TurnoverRateCalculator.window when the config has no "window".
DefaultWindow == 5
\* Largest window validate_config accepts.
WindowLimit == 60

\* A calculator config dict; "Absent" and hasWindow = FALSE stand for a key
\* the dict does not have, method "None" for no "method".
FullConfig(source, field, method, hasWindow, window) ==
    [source |-> source, field |-> field, method |-> method,
     hasWindow |-> hasWindow, window |-> window]
\* TurnoverRateCalculator(): no config at all.
NoConfig == FullConfig("Absent", "Absent", "None", FALSE, 0)

\* The attributes the constructor sets from the config.
SourceOf(cfg) == IF cfg.source = "Absent" THEN "daily_basic" ELSE cfg.source
FieldOf(cfg) == IF cfg.field = "Absent" THEN "turnover_rate" ELSE cfg.field
MethodOf(cfg) == cfg.method
WindowOrOne(cfg) == IF cfg.hasWindow THEN cfg.window ELSE 1

WindowOf(cfg) == IF cfg.hasWindow THEN cfg.window ELSE DefaultWindow

\* A row as get_daily_basic_data returns it; trade_date 0 is a string that
\* is not a date ("invalid-date").
FetchedRow(d, v) == [trade_date |-> d, values |-> [fld \in Fields |-> v]]
\* Trade dates of fetched rows: unparseable, the dates calculate is asked
\* for, and one date after them.
FetchedDates == 0..(MaxDate + 1)
\* The trade dates of n fetched rows, in the order returned: a table has
\* one row per trade date.
FetchedDateLists(n) ==
    {ds \in [1..n -> FetchedDates] :
        \A i, j \in 1..n : (i # j /\ ds[i] = ds[j]) => ds[i] = 0}
\* What a fetched row holds under the field: None, a string, or a number.
FetchedValues == {NullValue, InvalidValue, NumValue(1), NumValue(2)}
\* What one fetch can return: n rows in any order.
FetchedLists(n) ==
    {[i \in 1..n |-> FetchedRow(ds[i], vs[i])] :
        ds \in FetchedDateLists(n), vs \in [1..n -> FetchedValues]}

\* Filters of the moving average: the trade_date parses, is not after the
\* date asked for, and the field holds a number.
DateAlwaysParses(row) == TRUE

ParsesDate(row) == row.trade_date # 0

AnyDate(row, d) == TRUE

NotAfter(row, d) == row.trade_date <= d

IsNumeric(row, field) == row.values[field].kind = "num"

ValidRows(data, d, field) ==
    SelectSeq(data, LAMBDA row : ParsesDate(row) /\ NotAfter(row, d) /\ IsNumeric(row, field))

Unsorted(rows) == rows

\* Sort by trade_date, ascending; rows of one date keep their order.
SortByDate(rows) ==
    LET before(i) == {j \in 1..Len(rows) :
                        \/ rows[j].trade_date < rows[i].trade_date
                        \/ rows[j].trade_date = rows[i].trade_date /\ j < i}
    IN  [k \in 1..Len(rows) |-> rows[CHOOSE i \in 1..Len(rows) : Cardinality(before(i)) = k - 1]]

\* The last w rows (all of them when there are fewer).
LastRows(rows, w) == SubSeq(rows, Max({1, Len(rows) - w + 1}), Len(rows))

RECURSIVE SumOf(_, _)
SumOf(rows, field) ==
    IF rows = <<>> THEN 0 ELSE rows[1].values[field].v + SumOf(Tail(rows), field)

\* Means are kept exactly, in units of 1/MeanUnits.
MeanUnits == 3 * 4 * 5
RetMean(sum, n) == RetValue((sum * MeanUnits) \div n)

\* Not enough data for the window.
FewerFetchedThan(valid, data, w) == Len(data) < w

FewerValidThan(valid, data, w) == Len(valid) < w

\* calculate with method "ma".
CalculateMA(data, d, cfg) ==
    LET field == FieldOf(cfg)
        w == WindowOf(cfg)
        valid == SortByDate(ValidRows(data, d, field))
        recent == LastRows(valid, w)
    IN  IF FewerValidThan(valid, data, w) THEN RetNone
        ELSE IF recent = <<>> THEN Raise("Exception")
        ELSE RetMean(SumOf(recent, field), Len(recent))

\* calculate's except clause: any exception becomes None.
Propagated(r) == r

CaughtAsNone(r) == IF r = Raise("Exception") THEN RetNone ELSE r

\* calculate(db, code, d) of a calculator built with cfg.
CalculateResult(store, data, raises, d, cfg) ==
    CaughtAsNone(IF raises THEN Raise("Exception")
                 ELSE IF MethodOf(cfg) = "ma" THEN CalculateMA(data, d, cfg)
                 ELSE CalculateRaw(store, d, [field |-> FieldOf(cfg), method |-> "None"]))

CalculateWith(d, cfg) ==
    /\ calcConfig' = cfg
    /\ asOfDate' = d
    /\ ret' = CalculateResult(observations, fetched, fetchRaises, d, cfg)
    /\ Called("calculate", 0, ret')
    /\ UNCHANGED <<db, writes, argCfg, observations, fetched, fetchRaises, calculator, threadVars, http, session, utilVars>>

\* A table with turnover_rate 1 on every date, and what a fetch over all of
\* it returns.
SampleStore == [d \in Dates |-> [present |-> TRUE, values |-> [fld \in Fields |-> NumValue(1)]]]
SampleFetched == <<FetchedRow(1, NumValue(1))>>

\* The configs of the calls: no method, or "ma" with a window.
MACallConfigs ==
    {FullConfig("daily_basic", "turnover_rate", "None", FALSE, 0)}
        \cup {FullConfig("daily_basic", "turnover_rate", "ma", TRUE, w) : w \in 1..MaxWindow}

\* Any return value of the fetch, or a fetch that raises.
InitCalcMA ==
    /\ factors = {}
    /\ legacy = [f \in FactorIds |-> EmptyConfig]
    /\ models = {}
    /\ nextModelId = 1
    /\ configs = {}
    /\ writes = 0
    /\ op = "init"
    /\ argF = 0
    /\ argCode = ""
    /\ argCfg = EmptyConfig
    /\ ret = NoCall
    /\ observations = SampleStore
    /\ calcConfig = NoConfig
    /\ asOfDate = 1
    /\ fetchRaises \in BOOLEAN
    /\ IF fetchRaises THEN fetched \in {<<>>, SampleFetched}
       ELSE \E n \in 0..MaxFetched : fetched \in FetchedLists(n)
    /\ calculator = NoCalculator
    /\ ThreadsIdle
    /\ ApiIdle
    /\ SessionIdle
    /\ UtilsIdle

\* One call per run (a second call would read the same rows): a moving
\* average for any date but the last fetched one, a raw value for a date of
\* the table.
NextCalcMA ==
    /\ op = "init"
    /\ \E d \in 1..(MaxDate + 1), cfg \in MACallConfigs :
          /\ MethodOf(cfg) = "ma" \/ d \in Dates
          /\ CalculateWith(d, cfg)

SpecCalcMA == InitCalcMA /\ [][NextCalcMA]_vars

(* ------------------- properties of the moving average ------------------ *)

\* The last call was calculate with method "ma" and the fetch returned.
MovingAverageCall == op = "calculate" /\ calcConfig.method = "ma" /\ ~fetchRaises
\* Positions of the fetched rows that count for the call: a number under
\* the config's field, a trade_date that parses and is not after the date
\* asked for.
Counted ==
    {i \in 1..Len(fetched) :
        /\ fetched[i].values[calcConfig.field].kind = "num"
        /\ fetched[i].trade_date # 0
        /\ fetched[i].trade_date <= asOfDate}
\* The w positions of I with the latest trade dates.
Latest(I, w) ==
    {i \in I : Cardinality({j \in I : fetched[j].trade_date > fetched[i].trade_date}) < w}
RECURSIVE SumOver(_)
SumOver(I) ==
    IF I = {} THEN 0
    ELSE LET i == CHOOSE x \in I : TRUE
         IN  fetched[i].values[calcConfig.field].v + SumOver(I \ {i})
\* The arithmetic mean of the values at the w latest positions of I.
MeanOfLatest(I, w) == RetValue((SumOver(Latest(I, w)) * MeanUnits) \div w)

\* C11: a moving-average call with fewer counted rows than the window
\* returns None, however many rows with None values the fetch returned.
C11_InsufficientValidGivesNone ==
    (MovingAverageCall /\ Cardinality(Counted) < calcConfig.window) => ret = RetNone

\* C11: window 2, three fetched rows of which two hold None, result None.
C11_Witness ==
    /\ MovingAverageCall
    /\ calcConfig.window = 2
    /\ Len(fetched) = 3
    /\ Cardinality(Counted) = 1
    /\ Cardinality({i \in 1..Len(fetched) :
                      /\ fetched[i].values[calcConfig.field] = NullValue
                      /\ fetched[i].trade_date \in 1..asOfDate}) = 2
    /\ ret = RetNone

\* C12: a moving-average call with at least window counted rows returns the
\* mean of the window counted rows with the latest trade dates, whatever
\* the order of the fetched rows; with window 1 that is the latest counted
\* value.
C12_MeanOfLatestWindow ==
    (MovingAverageCall /\ Cardinality(Counted) >= calcConfig.window) =>
        /\ ret = MeanOfLatest(Counted, calcConfig.window)
        /\ calcConfig.window = 1 =>
              \E i \in Counted :
                  /\ \A j \in Counted : fetched[j].trade_date <= fetched[i].trade_date
                  /\ ret = RetValue(fetched[i].values[calcConfig.field].v * MeanUnits)

\* C12: window 2, three counted rows fetched out of date order, the oldest
\* one holding 2 and the two latest 1: the result is the mean 1.
C12_Witness ==
    /\ MovingAverageCall
    /\ calcConfig.window = 2
    /\ Cardinality(Counted) = 3
    /\ fetched[1].trade_date > fetched[2].trade_date
    /\ fetched[2].trade_date < fetched[3].trade_date
    /\ fetched[2].values[calcConfig.field] = NumValue(2)
    /\ ret = RetValue(MeanUnits)

\* C14: calculate never gives an exception back, and returns None when the
\* fetch raises, with or without method "ma".
C14_NeverRaises ==
    op = "calculate" =>
        /\ ret.kind \in {"None", "value"}
        /\ fetchRaises => ret = RetNone

\* C14: a call without method whose fetch raised returned None, while the
\* table holds a number for its date.
C14_Witness ==
    /\ op = "calculate"
    /\ fetchRaises
    /\ calcConfig.method = "None"
    /\ observations[asOfDate].values[calcConfig.field] = NumValue(1)
    /\ ret = RetNone

\* C15: when the fetch returns rows dated after the date asked for, the
\* moving average is the one of the rows up to that date: None when fewer
\* than window of them count, else the mean of their latest window.
C15_LaterRowsDiscarded ==
    (MovingAverageCall /\ \E i \in 1..Len(fetched) : fetched[i].trade_date > asOfDate) =>
        ret = IF Cardinality(Counted) < calcConfig.window THEN RetNone
              ELSE MeanOfLatest(Counted, calcConfig.window)

\* C15: window 1, the row of the date asked for holds 1 and a later row
\* holds 2: the result is 1.
C15_Witness ==
    /\ MovingAverageCall
    /\ calcConfig.window = 1
    /\ \E i, j \in 1..Len(fetched) :
          /\ fetched[i].trade_date = asOfDate
          /\ fetched[i].values[calcConfig.field] = NumValue(1)
          /\ fetched[j].trade_date > asOfDate
          /\ fetched[j].values[calcConfig.field] = NumValue(2)
    /\ ret = RetValue(MeanUnits)

\* C16: when a fetched row has a trade_date that does not parse, the call
\* still returns None or a mean: None exactly when fewer than window rows
\* count without it, else the mean of the latest window of the others.
C16_UnparseableDateSkipped ==
    (MovingAverageCall /\ \E i \in 1..Len(fetched) : fetched[i].trade_date = 0) =>
        /\ ret.kind \in {"None", "value"}
        /\ ret = RetNone <=> Cardinality(Counted) < calcConfig.window
        /\ Cardinality(Counted) >= calcConfig.window
              => ret = MeanOfLatest(Counted, calcConfig.window)

\* C16: window 2, a row with an unparseable date holding 2 and two counted
\* rows holding 1: the result is the mean 1.
C16_Witness ==
    /\ MovingAverageCall
    /\ calcConfig.window = 2
    /\ Cardinality(Counted) = 2
    /\ \E i \in 1..Len(fetched) :
          fetched[i].trade_date = 0 /\ fetched[i].values[calcConfig.field] = NumValue(2)
    /\ \A i \in Counted : fetched[i].values[calcConfig.field] = NumValue(1)
    /\ ret = RetValue(MeanUnits)

(* ------------------- calculator: validate_config ----------------------- *)

\* What validate_config returns: (True, "") or (False, message); the
\* message is named by the rule it reports.
ConfigValid == [kind |-> "valid", id |-> 0]
ConfigInvalid(rule) == [kind |-> rule, id |-> 0]

RecognizedSource(source) == source = "daily_basic"

NeverTooLarge(w) == FALSE

TooLarge(w) == w > WindowLimit

\* validate_config(): source, field, then the window of method "ma".
CalculatorValidateConfig(cfg) ==
    IF ~RecognizedSource(SourceOf(cfg)) THEN ConfigInvalid("invalid:source")
    ELSE IF FieldOf(cfg) = "" THEN ConfigInvalid("invalid:field")
    ELSE IF MethodOf(cfg) = "ma" /\ WindowOf(cfg) <= 0 THEN ConfigInvalid("invalid:window:positive")
    ELSE IF MethodOf(cfg) = "ma" /\ TooLarge(WindowOf(cfg)) THEN ConfigInvalid("invalid:window:limit")
    ELSE ConfigValid

\* TurnoverRateCalculator(config=calcConfig).validate_config()
ValidateConfigCall ==
    /\ ret' = CalculatorValidateConfig(calcConfig)
    /\ Called("validate_config", 0, ret')
    /\ UNCHANGED <<db, writes, argCfg, calcVars, threadVars, http, session, utilVars>>

\* The configs validate_config is given: any source, field and method, no
\* window or one from below 1 to above the limit.
ValidatedConfigs ==
    {FullConfig(source, field, method, FALSE, 0) :
        source \in {"daily_basic", "invalid_source", "Absent"},
        field \in {"turnover_rate", "", "Absent"},
        method \in {"None", "ma"}}
    \cup {FullConfig(source, field, method, TRUE, w) :
            source \in {"daily_basic", "invalid_source", "Absent"},
            field \in {"turnover_rate", "", "Absent"},
            method \in {"None", "ma"},
            w \in -1..(WindowLimit + 1)}

InitValidate ==
    /\ factors = {}
    /\ legacy = [f \in FactorIds |-> EmptyConfig]
    /\ models = {}
    /\ nextModelId = 1
    /\ configs = {}
    /\ writes = 0
    /\ op = "init"
    /\ argF = 0
    /\ argCode = ""
    /\ argCfg = EmptyConfig
    /\ ret = NoCall
    /\ observations = [d \in Dates |-> NoRow]
    /\ calcConfig \in ValidatedConfigs
    /\ asOfDate = 1
    /\ fetched = <<>>
    /\ fetchRaises = FALSE
    /\ calculator = NoCalculator
    /\ ThreadsIdle
    /\ ApiIdle
    /\ SessionIdle
    /\ UtilsIdle

NextValidate == ValidateConfigCall

SpecValidate == InitValidate /\ [][NextValidate]_vars

\* The rules the validated config breaks.
BrokenRules ==
    LET source == IF calcConfig.source = "Absent" THEN "daily_basic" ELSE calcConfig.source
        field == IF calcConfig.field = "Absent" THEN "turnover_rate" ELSE calcConfig.field
        window == IF calcConfig.hasWindow THEN calcConfig.window ELSE DefaultWindow
    IN  (IF source # "daily_basic" THEN {"invalid:source"} ELSE {})
        \cup (IF field = "" THEN {"invalid:field"} ELSE {})
        \cup (IF calcConfig.method = "ma" /\ window <= 0 THEN {"invalid:window:positive"} ELSE {})
        \cup (IF calcConfig.method = "ma" /\ window > 60 THEN {"invalid:window:limit"} ELSE {})

\* C13: validate_config returns (True, "") for a config that breaks no
\* rule (recognized source, non-empty field, window of "ma" in 1..60) and
\* otherwise False with the message of a rule the config breaks: the
\* source's, the field's, the positive-integer one for a window <= 0, the
\* limit one for a window > 60.
C13_ValidateConfigMessages ==
    op = "validate_config" =>
        /\ BrokenRules = {} => ret = ConfigValid
        /\ BrokenRules # {} => ret.kind \in BrokenRules

\* C13: a config with method "ma" and window 61 was refused with the limit
\* message.
C13_Witness ==
    /\ op = "validate_config"
    /\ calcConfig = FullConfig("daily_basic", "turnover_rate", "ma", TRUE, 61)
    /\ ret = ConfigInvalid("invalid:window:limit")

(* ------------------- calculator: the default window -------------------- *)

\* TurnoverRateCalculator.__init__: the attributes of the new calculator.
Attributes(cfg) ==
    [source |-> SourceOf(cfg), field |-> FieldOf(cfg), method |-> MethodOf(cfg),
     window |-> WindowOf(cfg)]

\* TurnoverRateCalculator(config=cfg)
Construct(cfg) ==
    /\ op = "init"
    /\ calculator' = Attributes(cfg)
    /\ calcConfig' = cfg
    /\ Called("construct", 0, RetOk)
    /\ UNCHANGED <<db, writes, argCfg, observations, asOfDate, fetched, fetchRaises, threadVars, http, session, utilVars>>

\* calculate(db, code, d) of the calculator built last, when its method is
\* "ma".
CalculateBuilt(d) ==
    /\ op = "construct"
    /\ MethodOf(calcConfig) = "ma"
    /\ CalculateWith(d, calcConfig)

\* The fetched rows of the runs around the default window: in date order,
\* each of the dates 1..DefaultWindow+1 with no row, a row holding None or a
\* row holding a number.
RECURSIVE RowsInDateOrder(_, _)
RowsInDateOrder(held, n) ==
    IF n = 0 THEN <<>>
    ELSE RowsInDateOrder(held, n - 1)
            \o (IF held[n] = AbsentValue THEN <<>> ELSE <<FetchedRow(n, held[n])>>)

InitCalcDefault ==
    /\ factors = {}
    /\ legacy = [f \in FactorIds |-> EmptyConfig]
    /\ models = {}
    /\ nextModelId = 1
    /\ configs = {}
    /\ writes = 0
    /\ op = "init"
    /\ argF = 0
    /\ argCode = ""
    /\ argCfg = EmptyConfig
    /\ ret = NoCall
    /\ observations = [d \in Dates |-> NoRow]
    /\ calcConfig = NoConfig
    /\ asOfDate = 1
    /\ \E held \in [1..(DefaultWindow + 1) -> {AbsentValue, NullValue, NumValue(1), NumValue(2)}] :
          fetched = RowsInDateOrder(held, DefaultWindow + 1)
    /\ fetchRaises = FALSE
    /\ calculator = NoCalculator
    /\ ThreadsIdle
    /\ ApiIdle
    /\ SessionIdle
    /\ UtilsIdle

NextCalcDefault ==
    \/ \E cfg \in {NoConfig,
                   FullConfig("daily_basic", "turnover_rate", "ma", FALSE, 0),
                   FullConfig("daily_basic", "turnover_rate", "ma", TRUE, DefaultWindow + 1)} :
          Construct(cfg)
    \/ \E d \in {DefaultWindow, DefaultWindow + 1} : CalculateBuilt(d)

SpecCalcDefault == InitCalcDefault /\ [][NextCalcDefault]_vars

\* C17: a calculator built without a config has source daily_basic, field
\* turnover_rate, no method and window 5; calculate of a calculator built
\* with method "ma" and no window is the moving average of window 5: None
\* with fewer than 5 counted rows, else the mean of the 5 latest.
C17_DefaultConfig ==
    /\ (op = "construct" /\ calcConfig = NoConfig) =>
          calculator = [source |-> "daily_basic", field |-> "turnover_rate",
                        method |-> "None", window |-> 5]
    /\ (MovingAverageCall /\ ~calcConfig.hasWindow) =>
          ret = IF Cardinality(Counted) < 5 THEN RetNone ELSE MeanOfLatest(Counted, 5)

\* C17: a calculator with method "ma" and no window was given six counted
\* rows, the oldest holding 2 and the others 1, and returned the mean 1.
C17_Witness ==
    /\ MovingAverageCall
    /\ ~calcConfig.hasWindow
    /\ Cardinality(Counted) = 6
    /\ fetched[1].values[calcConfig.field] = NumValue(2)
    /\ \A i \in 2..6 : fetched[i].values[calcConfig.field] = NumValue(1)
    /\ ret = RetValue(MeanUnits)

(* --------------------- get_model_for_code reads only ------------------- *)

\* One call per stored state, for the stored factor (id 1) or for one that
\* does not exist.
NextReadOnly ==
    /\ op = "init"
    /\ \E f \in {1, NumFactors}, code \in Codes : Resolve(f, code)
    /\ UNCHANGED <<writes, argCfg, calcVars, threadVars, http, session, utilVars>>

SpecReadOnly == InitResolve /\ [][NextReadOnly]_vars

\* C18: a call of get_model_for_code, whatever it returns or raises, leaves
\* the definitions, the models and the configurations as they were.
C18_ResolverReadsOnly ==
    [][op' = "get_model_for_code" => db' = db]_vars

\* C18: a call raised NotFoundError for a stored model_id and the
\* configuration is still stored.
C18_Witness ==
    /\ op = "get_model_for_code"
    /\ ret = Raise("NotFoundError:model")
    /\ \E r \in configs : r.factor_id = argF /\ r.config.mappings # <<>>

(* ------------------------ concurrent invocations ----------------------- *)

Threads == 1..NumThreads

\* An invocation of get_model_for_code(db, f, code) or of
\* calculate(db, code, d) with a config naming a field, not yet started.
ResolverCall(f, code) ==
    [kind |-> "get_model_for_code", pc |-> "definition", f |-> f, code |-> code,
     d |-> 0, field |-> "", result |-> NoCall]
CalculatorCall(d, field) ==
    [kind |-> "calculate", pc |-> "fetch", f |-> 0, code |-> "",
     d |-> d, field |-> field, result |-> NoCall]

\* The local variables of a frame: the config dict the resolver loaded and
\* the rows the calculator fetched.
NoLocals == [config |-> EmptyConfig, data |-> <<>>]

\* One frame for all invocations, as if the locals were attributes of the
\* class.
SharedFrame(t) == 1

\* Each invocation has its own frame: both are function calls that keep
\* what they read in local variables.
OwnFrame(t) == t

Returns(t, r) == inv' = [inv EXCEPT ![t].pc = "done", ![t].result = r]

\* factor_def = FactorService.get_factor_definition(db, factor_id)
ReadDefinition(t) ==
    /\ inv[t].kind = "get_model_for_code"
    /\ inv[t].pc = "definition"
    /\ IF FactorExists(factors, inv[t].f)
       THEN inv' = [inv EXCEPT ![t].pc = "config"]
       ELSE Returns(t, Raise("NotFoundError:factor"))
    /\ UNCHANGED scratch

\* config = factor_def.config.get_config(): the relationship loads the
\* factor's configuration row.
ReadConfig(t) ==
    /\ inv[t].kind = "get_model_for_code"
    /\ inv[t].pc = "config"
    /\ IF \E r \in configs : r.factor_id = inv[t].f
       THEN /\ scratch' = [scratch EXCEPT ![OwnFrame(t)].config =
                              (CHOOSE r \in configs : r.factor_id = inv[t].f).config]
            /\ inv' = [inv EXCEPT ![t].pc = "mappings"]
       ELSE /\ Returns(t, Raise("AttributeError"))
            /\ UNCHANGED scratch

\* A resolver that keeps the enabled flag it loaded and reads the mappings
\* from the row again when it comes to them.
RereadMappings(t) ==
    /\ inv[t].kind = "get_model_for_code"
    /\ inv[t].pc = "mappings"
    /\ LET now == {r \in configs : r.factor_id = inv[t].f}
           mixed == [enabled |-> scratch[OwnFrame(t)].config.enabled,
                     mappings |-> IF now = {} THEN scratch[OwnFrame(t)].config.mappings
                                  ELSE (CHOOSE r \in now : TRUE).config.mappings]
       IN  \E r \in GetModelForCode(factors, models,
                                    {[factor_id |-> inv[t].f, config |-> mixed]},
                                    inv[t].f, inv[t].code) : Returns(t, r)
    /\ UNCHANGED scratch

\* The enabled test, the two loops over the loaded mappings and the model
\* lookup of the mapping selected.
ReadModels(t) ==
    /\ inv[t].kind = "get_model_for_code"
    /\ inv[t].pc = "mappings"
    /\ \E r \in GetModelForCode(factors, models,
                               {[factor_id |-> inv[t].f, config |-> scratch[OwnFrame(t)].config]},
                               inv[t].f, inv[t].code) : Returns(t, r)
    /\ UNCHANGED scratch

\* data = DataService.get_daily_basic_data(db, code, trade_date, trade_date)
FetchRows(t) ==
    /\ inv[t].kind = "calculate"
    /\ inv[t].pc = "fetch"
    /\ scratch' = [scratch EXCEPT ![OwnFrame(t)].data =
                      GetDailyBasicData(observations, inv[t].d, inv[t].d)]
    /\ inv' = [inv EXCEPT ![t].pc = "value"]

\* The value of the fetched row under the config's field.
ReadValue(t) ==
    /\ inv[t].kind = "calculate"
    /\ inv[t].pc = "value"
    /\ Returns(t, ValueOfFetched(scratch[OwnFrame(t)].data,
                                 [field |-> inv[t].field, method |-> "None"]))
    /\ UNCHANGED scratch

\* The configurations stored for a factor: disabled, or one mapping of
\* code X to the default model or to the model of the largest id.
ThreadConfigs ==
    {StoredSample} \cup
    {[enabled |-> "True", mappings |-> <<[model_id |-> m, codes |-> {"X"}]>>] : m \in {0, MaxModelId}}

\* A table whose rows differ from date to date.
ThreadStore ==
    [d \in Dates |-> [present |-> TRUE,
                      values |-> [fld \in Fields |->
                                     IF fld = "turnover_rate" THEN NumValue(d % (MaxValue + 1))
                                     ELSE NullValue]]]

\* Two factors, each with its default model and with no configuration row
\* or one of ThreadConfigs; every thread is given an invocation.
InitThreads ==
    /\ factors = {[id |-> f, factor_name |-> f] : f \in {1, 2}}
    /\ legacy = [f \in FactorIds |-> EmptyConfig]
    /\ models = {[id |-> f, factor_id |-> f, is_default |-> TRUE, enabled |-> TRUE] : f \in {1, 2}}
    /\ nextModelId = MaxModelId + 1
    /\ \E held \in [{1, 2} -> ThreadConfigs \cup {EmptyConfig}] :
          configs = {[factor_id |-> f, config |-> held[f]] : f \in {g \in {1, 2} : held[g] # EmptyConfig}}
    /\ writes = 0
    /\ op = "init"
    /\ argF = 0
    /\ argCode = ""
    /\ argCfg = EmptyConfig
    /\ ret = NoCall
    /\ observations = ThreadStore
    /\ calcConfig = [field |-> "turnover_rate", method |-> "None"]
    /\ asOfDate = 1
    /\ fetched = <<>>
    /\ fetchRaises = FALSE
    /\ calculator = NoCalculator
    /\ inv \in [Threads -> {ResolverCall(f, code) : f \in {1, 2, NumFactors + 1}, code \in Codes}
                             \cup {CalculatorCall(d, fld) : d \in Dates, fld \in Fields}]
    /\ scratch = [t \in Threads |-> NoLocals]
    /\ ApiIdle
    /\ SessionIdle
    /\ UtilsIdle

\* Any thread takes its next step.
NextThreads ==
    /\ \E t \in Threads :
          \/ ReadDefinition(t)
          \/ ReadConfig(t)
          \/ ReadModels(t)
          \/ FetchRows(t)
          \/ ReadValue(t)
    /\ UNCHANGED <<db, writes, op, argF, argCode, argCfg, ret, calcVars, http, session, utilVars>>

SpecThreads == InitThreads /\ [][NextThreads]_vars

\* What an invocation returns when it runs alone against the stored data.
Alone(i) ==
    IF i.kind = "get_model_for_code"
    THEN GetModelForCode(factors, models, configs, i.f, i.code)
    ELSE {CalculateRaw(observations, i.d, [field |-> i.field, method |-> "None"])}

\* C19: in every interleaving, each invocation of get_model_for_code and of
\* calculate that has returned gave what it gives when run alone against
\* the same stored data and observations, and no step of any invocation
\* changes the stored tables or the observations.
C19_ConcurrentAsAlone ==
    /\ [](\A t \in DOMAIN inv : inv[t].pc = "done" => inv[t].result \in Alone(inv[t]))
    /\ [][db' = db /\ observations' = observations]_vars

\* C19: a resolver invocation has returned a model while another one, for a
\* different factor whose configuration differs, holds its loaded config and
\* has not returned, and a calculator can be among the invocations.
C19_Witness ==
    /\ inv # <<>>
    /\ \E t, u \in DOMAIN inv :
          /\ inv[t].kind = "get_model_for_code" /\ inv[u].kind = "get_model_for_code"
          /\ inv[t].f # inv[u].f
          /\ inv[t].pc = "done" /\ inv[t].result.kind = "model"
          /\ inv[u].pc = "mappings"
          /\ scratch[u].config # scratch[t].config

(* ------------- a configuration update beside the resolver ------------- *)

\* An invocation of update_factor_config_by_factor_id(db, f, c), not yet
\* started.
UpdateCall(f, c) ==
    [kind |-> "update_factor_config_by_factor_id", pc |-> "get", f |-> f, code |-> "",
     d |-> 0, field |-> "", result |-> NoCall, cfg |-> c]

\* factor_config = FactorService.get_factor_config_by_factor_id(db, factor_id):
\* the row as stored when the call loads it.
LoadConfigRow(t) ==
    /\ inv[t].kind = "update_factor_config_by_factor_id"
    /\ inv[t].pc = "get"
    /\ IF \E r \in configs : r.factor_id = inv[t].f
       THEN /\ scratch' = [scratch EXCEPT ![t].config =
                              (CHOOSE r \in configs : r.factor_id = inv[t].f).config]
            /\ inv' = [inv EXCEPT ![t].pc = "validate"]
       ELSE /\ Returns(t, Raise("NotFoundError:config"))
            /\ UNCHANGED scratch
    /\ UNCHANGED db

\* The loop over the new mappings and the count of default mappings.
CheckMappings(t) ==
    /\ inv[t].kind = "update_factor_config_by_factor_id"
    /\ inv[t].pc = "validate"
    /\ IF ValidateConfig(models, inv[t].cfg) = RetOk
       THEN inv' = [inv EXCEPT ![t].pc = "commit"]
       ELSE Returns(t, ValidateConfig(models, inv[t].cfg))
    /\ UNCHANGED <<scratch, db>>

\* factor_config.set_config(config); db.commit(): the row holds the whole
\* new config from the commit on.
CommitConfig(t) ==
    /\ inv[t].kind = "update_factor_config_by_factor_id"
    /\ inv[t].pc = "commit"
    /\ configs' = {IF x.factor_id = inv[t].f THEN [x EXCEPT !.config = inv[t].cfg] ELSE x : x \in configs}
    /\ Returns(t, RetOk)
    /\ UNCHANGED <<factors, legacy, models, nextModelId, scratch>>

\* The configs an update is called with: those of ThreadConfigs and one
\* naming a model that is not stored.
RaceConfigs ==
    ThreadConfigs \cup
    {[enabled |-> "True", mappings |-> <<[model_id |-> MaxModelId + 1, codes |-> {"X"}]>>]}

\* The tables of InitThreads; every thread is given a resolver call or an
\* update of a factor's configuration.
InitConfigRace ==
    /\ factors = {[id |-> f, factor_name |-> f] : f \in {1, 2}}
    /\ legacy = [f \in FactorIds |-> EmptyConfig]
    /\ models = {[id |-> f, factor_id |-> f, is_default |-> TRUE, enabled |-> TRUE] : f \in {1, 2}}
    /\ nextModelId = MaxModelId + 1
    /\ \E held \in [{1, 2} -> ThreadConfigs \cup {EmptyConfig}] :
          configs = {[factor_id |-> f, config |-> held[f]] : f \in {g \in {1, 2} : held[g] # EmptyConfig}}
    /\ writes = 0
    /\ op = "init"
    /\ argF = 0
    /\ argCode = ""
    /\ argCfg = EmptyConfig
    /\ ret = NoCall
    /\ CalcIdle
    /\ inv \in [Threads -> {ResolverCall(f, code) : f \in {1, 2}, code \in Codes}
                             \cup {UpdateCall(f, c) : f \in {1, 2}, c \in RaceConfigs}]
    /\ scratch = [t \in Threads |-> NoLocals]
    /\ ApiIdle
    /\ SessionIdle
    /\ UtilsIdle

\* Any thread takes its next step.
NextConfigRace ==
    /\ \E t \in Threads :
          \/ ReadDefinition(t) /\ UNCHANGED db
          \/ ReadConfig(t) /\ UNCHANGED db
          \/ ReadModels(t) /\ UNCHANGED db
          \/ LoadConfigRow(t)
          \/ CheckMappings(t)
          \/ CommitConfig(t)
    /\ UNCHANGED <<writes, op, argF, argCode, argCfg, ret, calcVars, http, session, utilVars>>

SpecConfigRace == InitConfigRace /\ [][NextConfigRace]_vars

\* The rows of factor f at the moments an invocation can have loaded them:
\* as stored now, and as each update of f found them.
StoredVersions(f) ==
    {{r \in configs : r.factor_id = f}} \cup
    {{[factor_id |-> f, config |-> scratch[w].config]} :
        w \in {u \in DOMAIN inv : /\ inv[u].kind = "update_factor_config_by_factor_id"
                                  /\ inv[u].f = f
                                  /\ inv[u].pc \in {"validate", "commit"} \cup
                                       (IF inv[u].result # Raise("NotFoundError:config")
                                        THEN {"done"} ELSE {})}}

\* C29: in every interleaving with updates of the factor's configuration, a
\* get_model_for_code that has returned gave what it gives alone against
\* one whole stored version of the configuration, the one before or the one
\* after an update, never the flag of one with the mappings of the other.
C29_OldOrNewConfig ==
    \A t \in DOMAIN inv :
        (inv[t].kind = "get_model_for_code" /\ inv[t].pc = "done") =>
            inv[t].result \in UNION {GetModelForCode(factors, models, v, inv[t].f, inv[t].code) :
                                        v \in StoredVersions(inv[t].f)}

\* C29: an update replaced the configuration of a factor by one under which
\* the resolver gives something else, and a resolver call for that factor
\* has returned what the replaced configuration gives.
C29_Witness ==
    /\ inv # <<>>
    /\ \E t, w \in DOMAIN inv :
          /\ inv[t].kind = "get_model_for_code" /\ inv[t].pc = "done"
          /\ inv[w].kind = "update_factor_config_by_factor_id" /\ inv[w].pc = "done"
          /\ inv[w].result = RetOk
          /\ inv[w].f = inv[t].f
          /\ scratch[w].config.enabled # inv[w].cfg.enabled
          /\ scratch[w].config.mappings # inv[w].cfg.mappings
          /\ scratch[t].config = scratch[w].config
          /\ inv[t].result \notin GetModelForCode(factors, models, configs, inv[t].f, inv[t].code)

(* ----------------------------- the REST API ---------------------------- *)

NotFoundErrors ==
    {Raise("NotFoundError:factor"), Raise("NotFoundError:model"), Raise("NotFoundError:config")}
ValueErrors ==
    {Raise("ValueError:default"), Raise("ValueError:exists"), Raise("ValueError:model_id")}

\* The status a handler answers with once the service gave r: its except
\* clauses in order (NotFoundError 404 and ValueError 400 where the handler
\* has them, Exception 500), else its success status.
Status(r, catchesNotFound, catchesValue, success) ==
    IF r \in NotFoundErrors /\ catchesNotFound THEN 404
    ELSE IF r \in ValueErrors /\ catchesValue THEN 400
    ELSE IF r = RetOk THEN success
    ELSE 500

\* A handler that lets every caller through.
RefusedNever(admin) == FALSE

\* if not is_admin(current_user, db): the first statement of a handler
\* that writes; admin is what is_admin returns for the caller.
Refused(admin) == ~admin

\* raise HTTPException(status_code=status.HTTP_403_FORBIDDEN, ...)
Forbidden(name) ==
    /\ http' = [endpoint |-> name, admin |-> FALSE, status |-> 403, called |-> <<>>, n |-> http.n + 1]
    /\ UNCHANGED <<db, op, argF, argCode, ret>>

\* The handler's answer after its service calls.
Answered(name, admin, catchesNotFound, catchesValue, success, called) ==
    http' = [endpoint |-> name, admin |-> admin,
             status |-> Status(ret', catchesNotFound, catchesValue, success),
             called |-> called, n |-> http.n + 1]

\* A service call that raises or returns without writing.
NoWrite(name, f, r) ==
    /\ Called(name, f, r)
    /\ UNCHANGED db

\* The arguments of the requests of a run.
ApiFactors == {1, NumFactors}
ApiModels == {1, MaxModelId}
ApiConfigs ==
    {StoredSample,
     [enabled |-> "True", mappings |-> <<[model_id |-> 1, codes |-> {}]>>],
     [enabled |-> "True", mappings |-> <<[model_id |-> MaxModelId, codes |-> {"X"}]>>]}

\* POST /definitions; ids are never reused, so the call is taken while the
\* id after the last one is free.
ApiCreateFactorDefinition(admin) ==
    IF Refused(admin) THEN Forbidden("create_factor_definition:69")
    ELSE /\ ~FactorExists(factors, Cardinality(factors) + 1)
         /\ \E name \in FactorNames, fc \in ApiConfigs : CreateFactorDefinition(name, fc)
         /\ Answered("create_factor_definition:69", admin, FALSE, TRUE, 201,
                     <<"create_factor_definition">>)

\* PUT /definitions/{factor_id}
ApiUpdateFactorDefinition(admin) ==
    IF Refused(admin) THEN Forbidden("update_factor_definition:134")
    ELSE /\ \E f \in ApiFactors, given \in BOOLEAN, fc \in ApiConfigs :
               UpdateFactorDefinition(f, given, fc)
         /\ Answered("update_factor_definition:134", admin, TRUE, FALSE, 200,
                     <<"update_factor_definition">>)

\* delete_factor_definition(db, factor_id): the row and its own
\* configuration go; the rows of the other tables are left to the schema.
DeleteFactorDefinition(f) ==
    LET r == IF FactorExists(factors, f) THEN RetOk ELSE Raise("NotFoundError:factor")
    IN  /\ factors' = Persisted(r, factors, {x \in factors : x.id # f})
        /\ legacy' = Persisted(r, legacy, [legacy EXCEPT ![f] = EmptyConfig])
        /\ Called("delete_factor_definition", f, r)
        /\ UNCHANGED <<models, nextModelId, configs>>

\* DELETE /definitions/{factor_id}
ApiDeleteFactorDefinition(admin) ==
    IF Refused(admin) THEN Forbidden("delete_factor_definition:162")
    ELSE /\ \E f \in ApiFactors : DeleteFactorDefinition(f)
         /\ Answered("delete_factor_definition:162", admin, TRUE, FALSE, 204,
                     <<"delete_factor_definition">>)

\* POST /models
ApiCreateFactorModel(admin) ==
    IF Refused(admin) THEN Forbidden("create_factor_model:181")
    ELSE /\ \E f \in ApiFactors, d \in BOOLEAN : CreateFactorModel(f, d, TRUE)
         /\ Answered("create_factor_model:181", admin, TRUE, TRUE, 201, <<"create_factor_model">>)

\* PUT /models/{model_id}
ApiUpdateFactorModel(admin) ==
    IF Refused(admin) THEN Forbidden("update_factor_model:246")
    ELSE /\ \E id \in ApiModels, d \in Flags : UpdateFactorModel(id, d, "None")
         /\ Answered("update_factor_model:246", admin, TRUE, FALSE, 200, <<"update_factor_model">>)

\* DELETE /models/{model_id}
ApiDeleteFactorModel(admin) ==
    IF Refused(admin) THEN Forbidden("delete_factor_model:273")
    ELSE /\ \E id \in ApiModels : DeleteFactorModel(id)
         /\ Answered("delete_factor_model:273", admin, TRUE, FALSE, 204, <<"delete_factor_model">>)

\* POST /configs; the handler has no except clause for NotFoundError.
ApiCreateFactorConfig(admin) ==
    IF Refused(admin) THEN Forbidden("create_factor_config:292")
    ELSE /\ \E f \in ApiFactors, c \in ApiConfigs : CreateFactorConfig(f, c)
         /\ Answered("create_factor_config:292", admin, FALSE, TRUE, 201, <<"create_factor_config">>)

\* PUT /configs/{factor_id}: the stored row is read, then updated.
ApiUpdateFactorConfigById(admin) ==
    IF Refused(admin) THEN Forbidden("update_factor_config_by_id:352")
    ELSE \E f \in ApiFactors, c \in ApiConfigs :
            IF HasConfigRow(configs, f)
            THEN /\ UpdateFactorConfigByFactorId(f, c)
                 /\ Answered("update_factor_config_by_id:352", admin, TRUE, TRUE, 200,
                             <<"get_factor_config_by_factor_id", "update_factor_config_by_factor_id">>)
            ELSE /\ NoWrite("get_factor_config_by_factor_id", f, Raise("NotFoundError:config"))
                 /\ Answered("update_factor_config_by_id:352", admin, TRUE, TRUE, 200,
                             <<"get_factor_config_by_factor_id">>)

\* DELETE /configs/{factor_id}
ApiDeleteFactorConfigById(admin) ==
    IF Refused(admin) THEN Forbidden("delete_factor_config_by_id:385")
    ELSE /\ \E f \in ApiFactors : DeleteFactorConfigByFactorId(f)
         /\ Answered("delete_factor_config_by_id:385", admin, TRUE, FALSE, 204,
                     <<"delete_factor_config_by_factor_id">>)

\* PUT /definitions/{factor_id}/config: the configuration row when the
\* calls on it raise no NotFoundError, else the definition's own
\* configuration.
ApiUpdateFactorConfig(admin) ==
    IF Refused(admin) THEN Forbidden("update_factor_config:431")
    ELSE \E f \in ApiFactors, c \in ApiConfigs :
            IF UpdateFactorConfigByFactorIdResult(models, configs, f, c) \notin NotFoundErrors
            THEN /\ UpdateFactorConfigByFactorId(f, c)
                 /\ Answered("update_factor_config:431", admin, TRUE, TRUE, 200,
                             <<"get_factor_config_by_factor_id", "update_factor_config_by_factor_id">>)
            ELSE /\ UpdateFactorConfig(f, c)
                 /\ Answered("update_factor_config:431", admin, TRUE, TRUE, 200,
                             IF HasConfigRow(configs, f)
                             THEN <<"get_factor_config_by_factor_id",
                                    "update_factor_config_by_factor_id", "update_factor_config">>
                             ELSE <<"get_factor_config_by_factor_id", "update_factor_config">>)

\* factor_def = get_factor_definition(db, factor_id);
\* factor_def.set_factor_config({}); db.commit()
ClearFactorConfig(f) ==
    LET r == IF FactorExists(factors, f) THEN RetOk ELSE Raise("NotFoundError:factor")
    IN  /\ legacy' = Persisted(r, legacy, [legacy EXCEPT ![f] = EmptyConfig])
        /\ Called("get_factor_definition", f, r)
        /\ UNCHANGED <<factors, models, nextModelId, configs>>

\* DELETE /definitions/{factor_id}/config: the configuration row, or the
\* definition's own configuration when there is no row.
ApiDeleteFactorConfig(admin) ==
    IF Refused(admin) THEN Forbidden("delete_factor_config:465")
    ELSE \E f \in ApiFactors :
            IF HasConfigRow(configs, f)
            THEN /\ DeleteFactorConfigByFactorId(f)
                 /\ Answered("delete_factor_config:465", admin, TRUE, FALSE, 204,
                             <<"delete_factor_config_by_factor_id">>)
            ELSE /\ ClearFactorConfig(f)
                 /\ Answered("delete_factor_config:465", admin, TRUE, FALSE, 204,
                             <<"delete_factor_config_by_factor_id", "get_factor_definition">>)

\* The second POST /configs: writes the definition's own configuration.
ApiCreateFactorConfigGrouped(admin) ==
    IF Refused(admin) THEN Forbidden("create_factor_config:496")
    ELSE /\ \E f \in ApiFactors, c \in ApiConfigs : UpdateFactorConfig(f, c)
         /\ Answered("create_factor_config:496", admin, TRUE, TRUE, 201, <<"update_factor_config">>)

\* PUT /configs/by-factor/{factor_id}: the definition's own configuration
\* with the fields the request gives replaced.
ApiUpdateFactorConfigByFactor(admin) ==
    IF Refused(admin) THEN Forbidden("update_factor_config_by_factor:584")
    ELSE \E f \in ApiFactors, c \in ApiConfigs, hasMappings, hasEnabled \in BOOLEAN :
            IF FactorExists(factors, f)
            THEN /\ UpdateFactorConfig(f, [enabled |-> IF hasEnabled THEN c.enabled
                                                       ELSE legacy[f].enabled,
                                           mappings |-> IF hasMappings THEN c.mappings
                                                        ELSE legacy[f].mappings])
                 /\ Answered("update_factor_config_by_factor:584", admin, TRUE, TRUE, 200,
                             <<"get_factor_config", "update_factor_config">>)
            ELSE /\ NoWrite("get_factor_config", f, Raise("NotFoundError:factor"))
                 /\ Answered("update_factor_config_by_factor:584", admin, TRUE, TRUE, 200,
                             <<"get_factor_config">>)

\* DELETE /configs/by-factor/{factor_id}
ApiDeleteFactorConfigByFactor(admin) ==
    IF Refused(admin) THEN Forbidden("delete_factor_config_by_factor:643")
    ELSE /\ \E f \in ApiFactors : ClearFactorConfig(f)
         /\ Answered("delete_factor_config_by_factor:643", admin, TRUE, FALSE, 204,
                     <<"get_factor_definition">>)

\* PUT /configs?config_id=: the update_factor_config the class ends up with
\* takes (db, factor_id, factor_config), so the keyword call raises
\* TypeError.
ApiUpdateFactorConfigQuery(admin) ==
    IF Refused(admin) THEN Forbidden("update_factor_config:689")
    ELSE /\ NoWrite("update_factor_config", 0, Raise("TypeError"))
         /\ Answered("update_factor_config:689", admin, TRUE, FALSE, 200, <<"update_factor_config">>)

\* DELETE /configs?config_id=: delete_factor_config reads through the
\* get_factor_config the class ends up with, which looks the id up as a
\* factor id and returns a dict that db.delete refuses.
ApiDeleteFactorConfigQuery(admin) ==
    IF Refused(admin) THEN Forbidden("delete_factor_config:714")
    ELSE /\ \E id \in ApiFactors :
               NoWrite("delete_factor_config", 0,
                       IF FactorExists(factors, id) THEN Raise("Exception")
                       ELSE Raise("NotFoundError:factor"))
         /\ Answered("delete_factor_config:714", admin, TRUE, FALSE, 204, <<"delete_factor_config">>)

\* POST /calculate: the calculation writes factor results, none of the
\* tables of definitions, models and configurations.
ApiCalculateFactor(admin) ==
    IF Refused(admin) THEN Forbidden("calculate_factor:734")
    ELSE /\ \E r \in {RetOk, Raise("Exception")} : NoWrite("calculate_factor", 0, r)
         /\ Answered("calculate_factor:734", admin, FALSE, FALSE, 200, <<"calculate_factor">>)

\* The handlers that only read: no is_admin test, one or two service
\* reads, and the statuses their except clauses give.
ReadEndpoints ==
    {[name |-> "list_factor_definitions:96", calls |-> <<"list_factor_definitions">>, statuses |-> {200, 500}],
     [name |-> "get_factor_definition:118", calls |-> <<"get_factor_definition">>, statuses |-> {200, 404, 500}],
     [name |-> "list_factor_models:209", calls |-> <<"list_factor_models">>, statuses |-> {200, 500}],
     [name |-> "get_factor_model:230", calls |-> <<"get_factor_model">>, statuses |-> {200, 404, 500}],
     [name |-> "list_factor_configs:314", calls |-> <<"list_factor_configs">>, statuses |-> {200, 500}],
     [name |-> "get_factor_config_by_id:336", calls |-> <<"get_factor_config_by_factor_id">>, statuses |-> {200, 404, 500}],
     [name |-> "get_factor_config:405", calls |-> <<"get_factor_config_by_factor_id">>, statuses |-> {200, 404, 500}],
     [name |-> "list_factor_configs_grouped:549", calls |-> <<"list_factor_configs">>, statuses |-> {200, 500}],
     [name |-> "list_factor_configs:668", calls |-> <<"list_factor_configs">>, statuses |-> {200, 500}],
     [name |-> "get_factor_results:762", calls |-> <<"get_factor_results">>, statuses |-> {200, 404, 500}]}

ApiRead(admin) ==
    /\ \E e \in ReadEndpoints :
          \E st \in e.statuses :
             http' = [endpoint |-> e.name, admin |-> admin, status |-> st, called |-> e.calls,
                      n |-> http.n + 1]
    /\ UNCHANGED <<db, op, argF, argCode, ret>>

\* The handlers that create, update or delete a definition, a model or a
\* configuration, or trigger a calculation.
WriteEndpoints ==
    {"create_factor_definition:69", "update_factor_definition:134", "delete_factor_definition:162",
     "create_factor_model:181", "update_factor_model:246", "delete_factor_model:273",
     "create_factor_config:292", "update_factor_config_by_id:352", "delete_factor_config_by_id:385",
     "update_factor_config:431", "delete_factor_config:465", "create_factor_config:496",
     "update_factor_config_by_factor:584", "delete_factor_config_by_factor:643",
     "update_factor_config:689", "delete_factor_config:714", "calculate_factor:734"}

\* One factor, with or without a default model and a configuration row.
InitApi ==
    /\ factors = {[id |-> 1, factor_name |-> 1]}
    /\ legacy = [f \in FactorIds |-> EmptyConfig]
    /\ models \in {{}, {[id |-> 1, factor_id |-> 1, is_default |-> TRUE, enabled |-> TRUE]}}
    /\ nextModelId = Cardinality(models) + 1
    /\ configs \in {{}, {[factor_id |-> 1, config |-> StoredSample]}}
    /\ writes = 0
    /\ op = "init"
    /\ argF = 0
    /\ argCode = ""
    /\ argCfg = EmptyConfig
    /\ ret = NoCall
    /\ CalcIdle
    /\ ThreadsIdle
    /\ ApiIdle
    /\ SessionIdle
    /\ UtilsIdle

\* A request of an admin or of another user to any endpoint.
NextApi ==
    /\ http.n < MaxRequests
    /\ \E admin \in BOOLEAN :
          \/ ApiCreateFactorDefinition(admin)
          \/ ApiUpdateFactorDefinition(admin)
          \/ ApiDeleteFactorDefinition(admin)
          \/ ApiCreateFactorModel(admin)
          \/ ApiUpdateFactorModel(admin)
          \/ ApiDeleteFactorModel(admin)
          \/ ApiCreateFactorConfig(admin)
          \/ ApiUpdateFactorConfigById(admin)
          \/ ApiDeleteFactorConfigById(admin)
          \/ ApiUpdateFactorConfig(admin)
          \/ ApiDeleteFactorConfig(admin)
          \/ ApiCreateFactorConfigGrouped(admin)
          \/ ApiUpdateFactorConfigByFactor(admin)
          \/ ApiDeleteFactorConfigByFactor(admin)
          \/ ApiUpdateFactorConfigQuery(admin)
          \/ ApiDeleteFactorConfigQuery(admin)
          \/ ApiCalculateFactor(admin)
          \/ ApiRead(admin)
    /\ UNCHANGED <<writes, argCfg, calcVars, threadVars, session, utilVars>>

SpecApi == InitApi /\ [][NextApi]_vars

\* C20: a request of a user who is not an admin to a handler that creates,
\* updates or deletes a definition, a model or a configuration, or triggers
\* a calculation, is answered 403 with no service operation called, and no
\* request of such a user changes the stored definitions, models or
\* configurations.
C20_NonAdminRefused ==
    [][(http'.n # http.n /\ ~http'.admin) =>
          /\ db' = db
          /\ http'.endpoint \in WriteEndpoints =>
                (http'.status = 403 /\ http'.called = <<>>)]_vars

\* C20: after a request that wrote a configuration, a user who is not an
\* admin asked to update it and was answered 403.
C20_Witness ==
    /\ http.n = 2
    /\ http.endpoint = "update_factor_config_by_id:352"
    /\ ~http.admin
    /\ http.status = 403
    /\ \E r \in configs : r.config # StoredSample

(* ------------------- default models, call by call ---------------------- *)

\* Two factors and no model yet.
InitModels ==
    /\ factors = {[id |-> f, factor_name |-> f] : f \in {1, 2}}
    /\ legacy = [f \in FactorIds |-> EmptyConfig]
    /\ models = {}
    /\ nextModelId = 1
    /\ configs = {}
    /\ writes = 0
    /\ op = "init"
    /\ argF = 0
    /\ argCode = ""
    /\ argCfg = EmptyConfig
    /\ ret = NoCall
    /\ CalcIdle
    /\ ThreadsIdle
    /\ ApiIdle
    /\ SessionIdle
    /\ UtilsIdle

\* create_factor_model and update_factor_model, one call at a time.
NextModels ==
    /\ \/ \E f \in FactorIds, d, e \in BOOLEAN : CreateFactorModel(f, d, e)
       \/ \E id \in ModelIds, d, e \in Flags : UpdateFactorModel(id, d, e)
    /\ UNCHANGED <<writes, argCfg, calcVars, threadVars, http, session, utilVars>>

SpecModels == InitModels /\ [][NextModels]_vars

DefaultsOf(ms, f) == {m \in ms : m.factor_id = f /\ m.is_default}
ModelsOf(ms, f) == {m \in ms : m.factor_id = f}

\* C21: after any sequence of create_factor_model and update_factor_model
\* calls every factor has at most one model with is_default; a call that
\* makes a model the default leaves it the only default of its factor, and
\* no call changes the models of more than one factor.
C21_OneDefaultPerFactor ==
    /\ [](\A f \in FactorIds : Cardinality(DefaultsOf(models, f)) <= 1)
    /\ [][/\ \A x \in models' \ models :
                x.is_default => DefaultsOf(models', x.factor_id) = {x}
          /\ \A f, g \in FactorIds :
                (ModelsOf(models', f) # ModelsOf(models, f)
                   /\ ModelsOf(models', g) # ModelsOf(models, g)) => f = g]_vars

\* C21: update_factor_model succeeded and the older of two models of a
\* factor is its only default.
C21_Witness ==
    /\ op = "update_factor_model"
    /\ ret = RetOk
    /\ \E a, b \in ModelsOf(models, 1) :
          /\ a.id < b.id
          /\ a.is_default
          /\ ~b.is_default

(* --------------- update_factor_config_with_mappings -------------------- *)

\* The row the call adds for one mapping of its argument.
MappingRow(f, mp, enabled) ==
    [factor_id |-> f,
     config |-> [enabled |-> IF enabled = "None" THEN "True" ELSE enabled, mappings |-> <<mp>>]]

\* A session whose transaction has changed nothing yet.
SessionOver(rows) == [view |-> rows, issued |-> <<>>]

\* update_factor_config_with_mappings(db, factor_id, mappings, enabled), in
\* the order of its statements: the UPDATE of enabled, the DELETE of the
\* factor's rows, the checks of the mappings, the rows added, the commit.
\* hasMappings is FALSE for mappings=None, enabled is "None" for
\* enabled=None.  A call that raises leaves what it issued in the session's
\* transaction, uncommitted.
UpdateFactorConfigWithMappings(f, hasMappings, ms, enabled) ==
    LET updated == IF enabled = "None" THEN session.view
                   ELSE {IF r.factor_id = f THEN [r EXCEPT !.config.enabled = enabled] ELSE r :
                            r \in session.view}
        afterUpdate == IF enabled = "None" THEN <<>> ELSE <<"update">>
        deleted == IF hasMappings THEN {r \in updated : r.factor_id # f} ELSE updated
        afterDelete == IF hasMappings THEN Append(afterUpdate, "delete") ELSE afterUpdate
        verdict == IF hasMappings
                   THEN ValidateConfig(models, [enabled |-> "True", mappings |-> ms])
                   ELSE RetOk
        added == IF hasMappings
                 THEN deleted \cup {MappingRow(f, ms[i], enabled) : i \in 1..Len(ms)}
                 ELSE deleted
        afterAdd == afterDelete \o (IF hasMappings THEN [i \in 1..Len(ms) |-> "insert"] ELSE <<>>)
    IN  IF ~FactorExists(factors, f)
        THEN /\ Called("update_factor_config_with_mappings", f, Raise("NotFoundError:factor"))
             /\ session' = [session EXCEPT !.issued = <<>>]
             /\ UNCHANGED db
        ELSE IF verdict # RetOk
        THEN /\ Called("update_factor_config_with_mappings", f, verdict)
             /\ session' = [view |-> deleted, issued |-> afterDelete]
             /\ UNCHANGED db
        ELSE /\ Called("update_factor_config_with_mappings", f, RetOk)
             /\ session' = [view |-> added, issued |-> Append(afterAdd, "commit")]
             /\ configs' = added
             /\ UNCHANGED <<factors, legacy, models, nextModelId>>

\* The mappings arguments: none, one for code X or a default one of the
\* stored model, one without model_id, one of a model that does not exist,
\* two default ones.
MappingInputs ==
    {<<>>,
     <<[model_id |-> 1, codes |-> {"X"}]>>,
     <<[model_id |-> 1, codes |-> {}]>>,
     <<[model_id |-> 0, codes |-> {"X"}]>>,
     <<[model_id |-> MaxModelId, codes |-> {"X"}]>>,
     <<[model_id |-> 1, codes |-> {}], [model_id |-> 1, codes |-> {}]>>}

\* One factor with one model and no row, or rows written by an earlier
\* call; the session has changed nothing.
InitMappings ==
    /\ factors = {[id |-> 1, factor_name |-> 1]}
    /\ legacy = [f \in FactorIds |-> EmptyConfig]
    /\ models = {[id |-> 1, factor_id |-> 1, is_default |-> TRUE, enabled |-> TRUE]}
    /\ nextModelId = MaxModelId + 1
    /\ configs \in SUBSET {MappingRow(1, [model_id |-> 1, codes |-> cs], en) :
                             cs \in {{}, {"X"}}, en \in {"True", "False"}}
    /\ writes = 0
    /\ op = "init"
    /\ argF = 0
    /\ argCode = ""
    /\ argCfg = EmptyConfig
    /\ ret = NoCall
    /\ CalcIdle
    /\ ThreadsIdle
    /\ ApiIdle
    /\ session = SessionOver(configs)
    /\ UtilsIdle

\* One call per stored state, on a session that has changed nothing.
NextMappings ==
    /\ op = "init"
    /\ \E f \in {1, NumFactors}, hasMappings \in BOOLEAN, ms \in MappingInputs, enabled \in Flags :
          UpdateFactorConfigWithMappings(f, hasMappings, ms, enabled)
    /\ UNCHANGED <<writes, argCfg, calcVars, threadVars, http, utilVars>>

SpecMappings == InitMappings /\ [][NextMappings]_vars

\* The errors the checks of the mappings raise.
ValidationErrors == ValueErrors \cup {Raise("NotFoundError:model")}

\* C22: a call of update_factor_config_with_mappings that fails the check
\* of its mappings has issued no update, delete, insert or commit before,
\* and leaves the factor's rows and their enabled flags as they were, in
\* its transaction and in the table.
C22_Original ==
    [][(op' = "update_factor_config_with_mappings" /\ ret' \in ValidationErrors) =>
          /\ session'.issued = <<>>
          /\ session'.view = session.view
          /\ configs' = configs]_vars

(* ------------------- configuration records, call by call --------------- *)

\* Two factors, one model, no configuration record yet.
InitConfigRows ==
    /\ factors = {[id |-> f, factor_name |-> f] : f \in {1, 2}}
    /\ legacy = [f \in FactorIds |-> EmptyConfig]
    /\ models = {[id |-> 1, factor_id |-> 1, is_default |-> TRUE, enabled |-> TRUE]}
    /\ nextModelId = MaxModelId + 1
    /\ configs = {}
    /\ writes = 0
    /\ op = "init"
    /\ argF = 0
    /\ argCode = ""
    /\ argCfg = EmptyConfig
    /\ ret = NoCall
    /\ CalcIdle
    /\ ThreadsIdle
    /\ ApiIdle
    /\ SessionIdle
    /\ UtilsIdle

\* The configurations the calls are given: at most one mapping.
RowConfigs == {c \in CallConfigs : Len(c.mappings) <= 1}

\* create_factor_config, update_factor_config_by_factor_id and
\* delete_factor_config_by_factor_id, one call at a time.
NextConfigRows ==
    /\ \/ \E f \in FactorIds, c \in RowConfigs : CreateFactorConfig(f, c)
       \/ \E f \in FactorIds, c \in RowConfigs : UpdateFactorConfigByFactorId(f, c)
       \/ \E f \in FactorIds : DeleteFactorConfigByFactorId(f)
    /\ UNCHANGED <<writes, argCfg, calcVars, threadVars, http, session, utilVars>>

SpecConfigRows == InitConfigRows /\ [][NextConfigRows]_vars

RowsOf(cfgs, f) == {r \in cfgs : r.factor_id = f}

\* C23: after any sequence of the three calls each factor has at most one
\* configuration record; create_factor_config for a factor that has one
\* raises ValueError and leaves the records as they were, and update or
\* delete for a factor without one raises NotFoundError and leaves them as
\* they were.
C23_OneRecordPerFactor ==
    /\ [](\A f \in FactorIds : Cardinality(RowsOf(configs, f)) <= 1)
    /\ [][/\ (op' = "create_factor_config" /\ RowsOf(configs, argF') # {}) =>
                (ret' = Raise("ValueError:exists") /\ configs' = configs)
          /\ (op' \in {"update_factor_config_by_factor_id", "delete_factor_config_by_factor_id"}
                /\ RowsOf(configs, argF') = {}) =>
                (ret' = Raise("NotFoundError:config") /\ configs' = configs)]_vars

\* C23: create_factor_config was refused for a factor that has a record,
\* given a configuration that differs from the stored one, while the other
\* factor has none.
C23_Witness ==
    /\ op = "create_factor_config"
    /\ ret = Raise("ValueError:exists")
    /\ \E r \in configs : r.factor_id = argF /\ r.config # StoredSample
    /\ \E f \in {1, 2} : RowsOf(configs, f) = {}

(* ---------------- create_factor_model, two at a time ------------------- *)

\* An invocation of create_factor_model(db, f, ..., is_default, enabled),
\* not yet started.
CreateCall(f, isDefault, enabled) ==
    [kind |-> "create_factor_model", pc |-> "definition", f |-> f, code |-> "",
     d |-> 0, field |-> "", result |-> NoCall, is_default |-> isDefault, enabled |-> enabled]

\* What a session holds uncommitted: the ids of the rows its UPDATE cleared.
NoPending == [config |-> EmptyConfig, data |-> <<>>, cleared |-> {}]

\* FactorService.get_factor_definition(db, factor_id)
CheckFactor(t) ==
    /\ inv[t].kind = "create_factor_model"
    /\ inv[t].pc = "definition"
    /\ IF FactorExists(factors, inv[t].f)
       THEN inv' = [inv EXCEPT ![t].pc = "clear"]
       ELSE Returns(t, Raise("NotFoundError:factor"))
    /\ UNCHANGED <<scratch, models, nextModelId>>

\* if is_default: the UPDATE over the factor's rows flagged is_default, as
\* the session sees them; it is in the session's transaction until the commit.
ClearExistingDefaults(t) ==
    /\ inv[t].kind = "create_factor_model"
    /\ inv[t].pc = "clear"
    /\ scratch' = [scratch EXCEPT ![t].cleared =
                      IF inv[t].is_default
                      THEN {m.id : m \in DefaultsOf(models, inv[t].f)}
                      ELSE {}]
    /\ inv' = [inv EXCEPT ![t].pc = "insert"]
    /\ UNCHANGED <<models, nextModelId>>

\* db.add(model); db.commit(): the cleared flags and the new row are stored.
InsertAndCommit(t) ==
    /\ inv[t].kind = "create_factor_model"
    /\ inv[t].pc = "insert"
    /\ models' = {IF m.id \in scratch[t].cleared THEN [m EXCEPT !.is_default = FALSE] ELSE m : m \in models}
                 \cup {[id |-> nextModelId, factor_id |-> inv[t].f,
                        is_default |-> inv[t].is_default, enabled |-> inv[t].enabled]}
    /\ nextModelId' = nextModelId + 1
    /\ Returns(t, RetOk)
    /\ UNCHANGED scratch

\* Two factors, the first with a default model or with none; every thread
\* is given a create_factor_model.
InitCreateRace ==
    /\ factors = {[id |-> f, factor_name |-> f] : f \in {1, 2}}
    /\ legacy = [f \in FactorIds |-> EmptyConfig]
    /\ \E held \in BOOLEAN :
          /\ models = IF held THEN {[id |-> 1, factor_id |-> 1, is_default |-> TRUE, enabled |-> TRUE]}
                      ELSE {}
          /\ nextModelId = IF held THEN 2 ELSE 1
    /\ configs = {}
    /\ writes = 0
    /\ op = "init"
    /\ argF = 0
    /\ argCode = ""
    /\ argCfg = EmptyConfig
    /\ ret = NoCall
    /\ CalcIdle
    /\ inv \in [Threads -> {CreateCall(f, isDefault, enabled) :
                               f \in {1, 2, NumFactors + 1}, isDefault \in BOOLEAN, enabled \in BOOLEAN}]
    /\ scratch = [t \in Threads |-> NoPending]
    /\ ApiIdle
    /\ SessionIdle
    /\ UtilsIdle

\* Any thread takes its next step.
NextCreateRace ==
    /\ \E t \in Threads :
          \/ CheckFactor(t)
          \/ ClearExistingDefaults(t)
          \/ InsertAndCommit(t)
    /\ UNCHANGED <<factors, legacy, configs, writes, op, argF, argCode, argCfg, ret,
                   calcVars, http, session, utilVars>>

SpecCreateRace == InitCreateRace /\ [][NextCreateRace]_vars

\* C28: once interleaved create_factor_model calls have all returned, no
\* factor has more than one model flagged is_default.
C28_Original ==
    (inv # <<>> /\ \A t \in DOMAIN inv : inv[t].pc = "done") =>
        \A f \in FactorIds : Cardinality(DefaultsOf(models, f)) <= 1

(* --------------------------- retry_on_failure -------------------------- *)

\* The service and the calculator at rest: the utilities touch none of it.
ServiceIdle ==
    /\ factors = {}
    /\ legacy = [f \in FactorIds |-> EmptyConfig]
    /\ models = {}
    /\ nextModelId = 1
    /\ configs = {}
    /\ writes = 0
    /\ op = "init"
    /\ argF = 0
    /\ argCode = ""
    /\ argCfg = EmptyConfig
    /\ ret = NoCall
    /\ CalcIdle
    /\ ThreadsIdle
    /\ ApiIdle
    /\ SessionIdle

\* What one invocation of the wrapped function does: it returns a value
\* (None among them) or raises; retried tells whether the exception is an
\* instance of the configured types, n is the invocation that raised it.
Returned(v) == [n |-> 0, kind |-> "return", v |-> v, retried |-> FALSE]
Raised(retried, n) == [n |-> n, kind |-> "raise", v |-> "", retried |-> retried]
ReturnValues == {"None", "a", "b"}

\* if attempt <= max_retries: a wrapper that also sleeps after the last
\* failure.
SleepsAlways(attempt, max_retries) == attempt <= max_retries

\* if attempt < max_retries
SleepsAgain(attempt, max_retries) == attempt < max_retries

\* wrapper(*args, **kwargs) up to the loop: current_delay = delay,
\* last_exception = None.
RetryCall(max_retries, delay, backoff) ==
    [pc |-> "loop", result |-> Returned("None"), calls |-> <<>>, attempt |-> 0,
     max_retries |-> max_retries, backoff |-> backoff, current_delay |-> delay,
     last_exception |-> Returned("None"), slept |-> <<>>]

\* One pass of for attempt in range(max_retries + 1) in which func gives
\* outcome o: a return leaves the wrapper, an exception of another type
\* propagates, a configured one is kept and either slept on or re-raised;
\* after the last pass the statement behind the loop raises last_exception.
Attempt(o) ==
    /\ retry # NoCall
    /\ retry.pc = "loop"
    /\ retry.attempt <= retry.max_retries
    /\ LET called == [retry EXCEPT !.calls = Append(@, o)]
       IN  retry' =
             IF o.kind = "return" \/ ~o.retried
             THEN [called EXCEPT !.pc = IF o.kind = "return" THEN "returned" ELSE "raised",
                                 !.result = o]
             ELSE IF SleepsAgain(retry.attempt, retry.max_retries)
                  THEN LET slept == [called EXCEPT !.last_exception = o,
                                                   !.slept = Append(@, retry.current_delay),
                                                   !.current_delay = @ * retry.backoff,
                                                   !.attempt = @ + 1]
                       IN  IF slept.attempt <= retry.max_retries THEN slept
                           ELSE [slept EXCEPT !.pc = "raised", !.result = slept.last_exception]
                  ELSE [called EXCEPT !.last_exception = o, !.pc = "raised", !.result = o]
    /\ UNCHANGED <<db, writes, op, argF, argCode, argCfg, ret, calcVars, threadVars, http,
                   session, cache, convert, builder>>

FuncReturns == \E v \in ReturnValues : Attempt(Returned(v))
FuncRaisesConfigured == Attempt(Raised(TRUE, Len(retry.calls) + 1))
FuncRaisesOther == Attempt(Raised(FALSE, Len(retry.calls) + 1))

InitRetry ==
    /\ ServiceIdle
    /\ \E m \in 0..MaxRetries, dl \in 0..MaxDelay, b \in {1, 2} : retry = RetryCall(m, dl, b)
    /\ cache = NoCall
    /\ convert = NoCall
    /\ builder = NoCall

NextRetry ==
    \/ FuncReturns
    \/ FuncRaisesConfigured
    \/ FuncRaisesOther

SpecRetry == InitRetry /\ [][NextRetry]_vars

\* C24: func is invoked at most max_retries + 1 times and at least once when
\* the wrapper is left; every invocation but the last raised a configured
\* exception; the wrapper returns the first value func returns, raises at
\* once an exception of another type, and raises the last configured
\* exception only after max_retries + 1 invocations; it has slept once
\* after each failure but the last.
C24_RetryOnFailure ==
    retry # NoCall =>
        LET n == Len(retry.calls)
        IN  /\ n <= retry.max_retries + 1
            /\ \A i \in 1..n : i < n \/ retry.pc = "loop" => retry.calls[i] = Raised(TRUE, i)
            /\ retry.pc = "loop" => Len(retry.slept) = n
            /\ retry.pc # "loop" =>
                  /\ n >= 1
                  /\ retry.result = retry.calls[n]
                  /\ Len(retry.slept) = n - 1
                  /\ retry.pc = "returned" <=> retry.calls[n].kind = "return"
                  /\ (retry.pc = "raised" /\ retry.result.retried) => n = retry.max_retries + 1

\* C24: every one of max_retries + 1 >= 2 invocations raised a configured
\* exception and the wrapper raised the last of them.
C24_Witness ==
    /\ retry # NoCall
    /\ retry.pc = "raised"
    /\ retry.max_retries >= 1
    /\ retry.result = Raised(TRUE, retry.max_retries + 1)
    /\ Len(retry.slept) = retry.max_retries

(* ----------------------------- cache_result ---------------------------- *)

\* Python values a wrapped function returns, and what json.loads gives.
NoneValue == [t |-> "none", v |-> 0]
IntValue(n) == [t |-> "int", v |-> n]
StrValue(n) == [t |-> "str", v |-> n]
ListValue(n) == [t |-> "list", v |-> n]
TupleValue(n) == [t |-> "tuple", v |-> n]
\* An object json cannot encode itself: default=str encodes str(obj).
ObjectValue(n) == [t |-> "object", v |-> n]
\* A list that holds itself: json.dumps raises ValueError.
CircularValue == [t |-> "circular", v |-> 0]
FuncResults ==
    {NoneValue, IntValue(1), StrValue(1), ListValue(1), TupleValue(1), ObjectValue(1), CircularValue}

\* What the cache holds under a key: a JSON text, a text that is no JSON,
\* a value that is no text, or nothing (cache.get gives None).
JsonText(js, n) == [js |-> js, v |-> n]
NoEntry == [js |-> "absent", v |-> 0, ex |-> 0]
Entry(text, ex) == [js |-> text.js, v |-> text.v, ex |-> ex]

\* json.dumps(result, default=str): a tuple is written as an array, an
\* object as the string str gives.
Serialisable(r) == r.t # "circular"
Dumps(r) ==
    IF r.t = "none" THEN JsonText("null", 0)
    ELSE IF r.t = "int" THEN JsonText("number", r.v)
    ELSE IF r.t \in {"str", "object"} THEN JsonText("string", r.v)
    ELSE JsonText("array", r.v)

\* json.loads(cached): JSONDecodeError for a text that is no JSON, TypeError
\* for a value that is no text.
Parseable(entry) == entry.js \in {"null", "number", "string", "array"}
Loads(entry) ==
    IF entry.js = "null" THEN NoneValue
    ELSE IF entry.js = "number" THEN IntValue(entry.v)
    ELSE IF entry.js = "string" THEN StrValue(entry.v)
    ELSE ListValue(entry.v)

\* A wrapper that goes on to call the function when the entry decodes to
\* None.
HitUnlessNull(entry) == Parseable(entry) /\ Loads(entry) # NoneValue

\* if cached is not None: try: return json.loads(cached)
Hit(entry) == Parseable(entry)

\* The arguments of a call: numbers and strings are part of the key, a list
\* is neither primitive nor has __dict__ and is left out.
CallArgs == {IntValue(1), IntValue(2), ListValue(1), ListValue(2)}
CacheKey(arg) == IF arg.t \in {"int", "str", "none"} THEN <<"prefix", arg.v>> ELSE <<"prefix">>
CacheKeys == {CacheKey(arg) : arg \in CallArgs}

\* wrapper(arg) of cache_result(expire=cache.expire), func returning r when
\* it is called.
CachedCall(arg, r) ==
    /\ cache # NoCall
    /\ cache.n < MaxCalls
    /\ LET key == CacheKey(arg)
           cached == cache.store[key]
       IN  cache' =
             IF Hit(cached)
             THEN [cache EXCEPT !.n = @ + 1, !.key = key, !.invoked = 0,
                                !.produced = NoneValue, !.result = Loads(cached)]
             ELSE [cache EXCEPT !.n = @ + 1, !.key = key, !.invoked = 1,
                                !.produced = r, !.result = r,
                                !.store = IF Serialisable(r)
                                          THEN [@ EXCEPT ![key] = Entry(Dumps(r), cache.expire)]
                                          ELSE @]
    /\ UNCHANGED <<db, writes, op, argF, argCode, argCfg, ret, calcVars, threadVars, http,
                   session, retry, convert, builder>>

\* The expiry of an entry passes.
Expire(key) ==
    /\ cache # NoCall
    /\ cache.store[key] # NoEntry
    /\ cache.store[key].ex > 0
    /\ cache' = [cache EXCEPT !.store = [@ EXCEPT ![key] = NoEntry]]
    /\ UNCHANGED <<db, writes, op, argF, argCode, argCfg, ret, calcVars, threadVars, http,
                   session, retry, convert, builder>>

\* The cache starts with nothing under a key, or with something another
\* writer left there: the text null, a text that is no JSON, a number.
InitCache ==
    /\ ServiceIdle
    /\ retry = NoCall
    /\ \E st \in [CacheKeys -> {NoEntry, Entry(JsonText("null", 0), 0),
                                Entry(JsonText("garbage", 0), 0), Entry(JsonText("notstr", 0), 0)}],
          ex \in {60, 3600} :
          cache = [store |-> st, expire |-> ex, n |-> 0, key |-> <<>>, invoked |-> 0,
                   produced |-> NoneValue, result |-> NoneValue]
    /\ convert = NoCall
    /\ builder = NoCall

NextCache ==
    \/ \E arg \in CallArgs, r \in FuncResults : CachedCall(arg, r)
    \/ \E key \in CacheKeys : Expire(key)

SpecCache == InitCache /\ [][NextCache]_vars

\* C25: a call whose key holds an entry json.loads accepts does not invoke
\* the function, returns the decoded entry (None for null) and leaves the
\* cache alone; any other call invokes it once and returns its result as
\* it is, and the cache then holds the result's JSON text under the key
\* with the configured expiry, or what it held before when the result
\* cannot be serialised.
C25_CacheResult ==
    [][(cache # NoCall /\ cache'.n = cache.n + 1) =>
          LET old == cache.store[cache'.key]
          IN  IF Parseable(old)
              THEN /\ cache'.invoked = 0
                   /\ cache'.result = Loads(old)
                   /\ cache'.store = cache.store
              ELSE /\ cache'.invoked = 1
                   /\ cache'.result = cache'.produced
                   /\ cache'.store = IF Serialisable(cache'.produced)
                                     THEN [cache.store EXCEPT ![cache'.key] =
                                              Entry(Dumps(cache'.produced), cache.expire)]
                                     ELSE cache.store]_vars

\* C25: the last call found the text null under its key and returned None
\* without invoking the function, after a call that returned a result it
\* could not store.
C25_Witness ==
    /\ cache # NoCall
    /\ cache.n >= 2
    /\ cache.invoked = 0
    /\ cache.result = NoneValue
    /\ cache.store[cache.key].js = "null"
    /\ \E k \in CacheKeys : cache.store[k].js = "garbage"

(* ------------------- convert_sqlalchemy_type_to_mysql ------------------ *)

\* Strings are sequences of characters. str.upper():
LowerCase ==
    <<"a", "b", "c", "d", "e", "f", "g", "h", "i", "j", "k", "l", "m", "n", "o", "p", "q", "r", "s", "t", "u", "v", "w", "x", "y", "z">>
UpperCase ==
    <<"A", "B", "C", "D", "E", "F", "G", "H", "I", "J", "K", "L", "M", "N", "O", "P", "Q", "R", "S", "T", "U", "V", "W", "X", "Y", "Z">>
UpperChar(c) ==
    IF \E i \in 1..Len(LowerCase) : LowerCase[i] = c
    THEN UpperCase[CHOOSE i \in 1..Len(LowerCase) : LowerCase[i] = c]
    ELSE c
Upper(str) == [i \in 1..Len(str) |-> UpperChar(str[i])]

\* pattern in type_name
Contains(pattern, str) ==
    \E i \in 0..(Len(str) - Len(pattern)) : SubSeq(str, i + 1, i + Len(pattern)) = pattern

\* type_mapping, in the order of the dict; original is str(sqlalchemy_type).
TypeMapping(original) ==
    << <<<<"D", "O", "U", "B", "L", "E">>, <<"D", "O", "U", "B", "L", "E">>>>,
       <<<<"F", "L", "O", "A", "T">>, <<"F", "L", "O", "A", "T">>>>,
       <<<<"I", "N", "T">>, <<"I", "N", "T">>>>,
       <<<<"I", "N", "T", "E", "G", "E", "R">>, <<"I", "N", "T">>>>,
       <<<<"V", "A", "R", "C", "H", "A", "R">>, original>>,
       <<<<"D", "A", "T", "E">>, <<"D", "A", "T", "E">>>>,
       <<<<"D", "A", "T", "E", "T", "I", "M", "E">>, <<"D", "A", "T", "E", "T", "I", "M", "E">>>>,
       <<<<"T", "E", "X", "T">>, <<"T", "E", "X", "T">>>>,
       <<<<"B", "O", "O", "L", "E", "A", "N">>, <<"B", "O", "O", "L", "E", "A", "N">>>>,
       <<<<"D", "E", "C", "I", "M", "A", "L">>, original>>,
       <<<<"B", "I", "G", "I", "N", "T">>, <<"B", "I", "G", "I", "N", "T">>>>,
       <<<<"S", "M", "A", "L", "L", "I", "N", "T">>, <<"S", "M", "A", "L", "L", "I", "N", "T">>>>,
       <<<<"T", "I", "N", "Y", "I", "N", "T">>, <<"T", "I", "N", "Y", "I", "N", "T">>>>,
       <<<<"C", "H", "A", "R">>, original>>,
       <<<<"L", "O", "N", "G", "T", "E", "X", "T">>, <<"L", "O", "N", "G", "T", "E", "X", "T">>>>,
       <<<<"M", "E", "D", "I", "U", "M", "T", "E", "X", "T">>, <<"M", "E", "D", "I", "U", "M", "T", "E", "X", "T">>>>,
       <<<<"T", "I", "M", "E", "S", "T", "A", "M", "P">>, <<"T", "I", "M", "E", "S", "T", "A", "M", "P">>>>,
       <<<<"T", "I", "M", "E">>, <<"T", "I", "M", "E">>>>,
       <<<<"Y", "E", "A", "R">>, <<"Y", "E", "A", "R">>>>,
       <<<<"B", "L", "O", "B">>, <<"B", "L", "O", "B">>>>,
       <<<<"L", "O", "N", "G", "B", "L", "O", "B">>, <<"L", "O", "N", "G", "B", "L", "O", "B">>>>,
       <<<<"M", "E", "D", "I", "U", "M", "B", "L", "O", "B">>, <<"M", "E", "D", "I", "U", "M", "B", "L", "O", "B">>>>,
       <<<<"T", "I", "N", "Y", "B", "L", "O", "B">>, <<"T", "I", "N", "Y", "B", "L", "O", "B">>>> >>

TypeKeys == {TypeMapping(<<>>)[i][1] : i \in 1..Len(TypeMapping(<<>>))}

\* A type object: what str() gives for it, or that str() raises.
Printable(str) == [printable |-> TRUE, str |-> str]
Unprintable == [printable |-> FALSE, str |-> <<>>]

\* The names of the table's keys, names with parameters, names of no key,
\* names in lower case.
KeyNames ==
    {<<"D", "O", "U", "B", "L", "E">>,
     <<"F", "L", "O", "A", "T">>,
     <<"I", "N", "T">>,
     <<"I", "N", "T", "E", "G", "E", "R">>,
     <<"V", "A", "R", "C", "H", "A", "R">>,
     <<"D", "A", "T", "E">>,
     <<"D", "A", "T", "E", "T", "I", "M", "E">>,
     <<"T", "E", "X", "T">>,
     <<"B", "O", "O", "L", "E", "A", "N">>,
     <<"D", "E", "C", "I", "M", "A", "L">>,
     <<"B", "I", "G", "I", "N", "T">>,
     <<"S", "M", "A", "L", "L", "I", "N", "T">>,
     <<"T", "I", "N", "Y", "I", "N", "T">>,
     <<"C", "H", "A", "R">>,
     <<"L", "O", "N", "G", "T", "E", "X", "T">>,
     <<"M", "E", "D", "I", "U", "M", "T", "E", "X", "T">>,
     <<"T", "I", "M", "E", "S", "T", "A", "M", "P">>,
     <<"T", "I", "M", "E">>,
     <<"Y", "E", "A", "R">>,
     <<"B", "L", "O", "B">>,
     <<"L", "O", "N", "G", "B", "L", "O", "B">>,
     <<"M", "E", "D", "I", "U", "M", "B", "L", "O", "B">>,
     <<"T", "I", "N", "Y", "B", "L", "O", "B">>}
OtherNames ==
    {<<"V", "A", "R", "C", "H", "A", "R", "(", "6", ")">>,
     <<"C", "H", "A", "R", "(", "1", ")">>,
     <<"D", "E", "C", "I", "M", "A", "L", "(", "1", "0", ",", "2", ")">>,
     <<"N", "V", "A", "R", "C", "H", "A", "R", "(", "6", ")">>,
     <<"T", "I", "N", "Y", "T", "E", "X", "T">>,
     <<"J", "S", "O", "N">>,
     <<"E", "N", "U", "M">>,
     <<"b", "i", "g", "i", "n", "t">>,
     <<"v", "a", "r", "c", "h", "a", "r", "(", "6", ")">>,
     <<"J", "s", "o", "n">>,
     <<"d", "a", "t", "e", "t", "i", "m", "e">>}
SqlTypes == {Printable(n) : n \in KeyNames \cup OtherNames} \cup {Unprintable}

ConvertRaises == <<"r", "a", "i", "s", "e", "s">>

\* convert_sqlalchemy_type_to_mysql(sqlalchemy_type): when str() raises,
\* the handler's message formats the type again and raises in its turn.
ConvertSqlalchemyTypeToMysql(t) ==
    IF ~t.printable THEN ConvertRaises
    ELSE LET type_name == Upper(t.str)
             mapping == TypeMapping(t.str)
             hits == {i \in 1..Len(mapping) : Contains(mapping[i][1], type_name)}
         IN  IF Contains(<<"V", "A", "R", "C", "H", "A", "R">>, type_name) THEN t.str
             ELSE IF Contains(<<"D", "E", "C", "I", "M", "A", "L">>, type_name) THEN t.str
             ELSE IF Contains(<<"C", "H", "A", "R">>, type_name) THEN t.str
             ELSE IF hits # {} THEN mapping[Min(hits)][2]
             ELSE <<"D", "O", "U", "B", "L", "E">>

\* One more type is converted.
Convert(t) ==
    /\ convert # NoCall
    /\ Len(convert.done) < MaxConverted
    /\ convert' = [convert EXCEPT !.done = Append(@, [type |-> t, result |-> ConvertSqlalchemyTypeToMysql(t)])]
    /\ UNCHANGED <<db, writes, op, argF, argCode, argCfg, ret, calcVars, threadVars, http,
                   session, retry, cache, builder>>

InitConvert ==
    /\ ServiceIdle
    /\ retry = NoCall
    /\ cache = NoCall
    /\ convert = [done |-> <<>>]
    /\ builder = NoCall

NextConvert == \E t \in SqlTypes : Convert(t)

SpecConvert == InitConvert /\ [][NextConvert]_vars

\* The value the table holds for a key.
TableValue(key, original) ==
    LET mapping == TypeMapping(original)
    IN  mapping[CHOOSE i \in 1..Len(mapping) : mapping[i][1] = key][2]

\* C26: no conversion raises; a type whose upper-cased name is a key of the
\* table is given the table's value for that key; DOUBLE is given only to
\* a name that contains DOUBLE or no key at all.
C26_Original ==
    convert # NoCall =>
        \A i \in 1..Len(convert.done) :
            LET t == convert.done[i].type
                r == convert.done[i].result
            IN  /\ r # ConvertRaises
                /\ (t.printable /\ Upper(t.str) \in TypeKeys) => r = TableValue(Upper(t.str), t.str)
                /\ (t.printable /\ r = <<"D", "O", "U", "B", "L", "E">>) =>
                      \/ Contains(<<"D", "O", "U", "B", "L", "E">>, Upper(t.str))
                      \/ \A k \in TypeKeys : ~Contains(k, Upper(t.str))

(* ------------------------- QueryBuilder.order_by ----------------------- *)

\* Columns a query is ordered by.
OrderFields == {"trade_date", "code"}

RECURSIVE FieldLists(_)
FieldLists(n) ==
    IF n = 0 THEN {<<>>}
    ELSE FieldLists(n - 1) \cup {Append(fs, f) : fs \in {g \in FieldLists(n - 1) : Len(g) = n - 1}, f \in OrderFields}

\* An ORDER BY term: query.order_by(f) orders ascending, desc(f) descending.
Ascending(f) == [field |-> f, dir |-> "asc"]
Descending(f) == [field |-> f, dir |-> "desc"]

\* What the name desc is bound to inside order_by: the parameter desc, a
\* bool, hides the function imported from sqlalchemy.
DescInOrderBy(descParam) == [callable |-> FALSE, value |-> descParam]

\* QueryBuilder(db, model_class): the query has no ordering yet.
NewBuilder == [orderings |-> <<>>, n |-> 0, fields |-> <<>>, desc |-> FALSE, result |-> "none"]

\* builder.order_by(*fields, desc=descParam)
OrderBy(fields, descParam) ==
    /\ builder # NoCall
    /\ builder.n < MaxOrderCalls
    /\ LET called == [builder EXCEPT !.n = @ + 1, !.fields = fields, !.desc = descParam]
           name == DescInOrderBy(descParam)
       IN  builder' =
             IF fields = <<>> THEN [called EXCEPT !.result = "self"]
             ELSE IF descParam
                  THEN IF name.callable
                       THEN [called EXCEPT !.result = "self",
                                           !.orderings = @ \o [i \in 1..Len(fields) |-> Descending(fields[i])]]
                       ELSE [called EXCEPT !.result = "TypeError"]
                  ELSE [called EXCEPT !.result = "self",
                                      !.orderings = @ \o [i \in 1..Len(fields) |-> Ascending(fields[i])]]
    /\ UNCHANGED <<db, writes, op, argF, argCode, argCfg, ret, calcVars, threadVars, http,
                   session, retry, cache, convert>>

InitBuilder ==
    /\ ServiceIdle
    /\ retry = NoCall
    /\ cache = NoCall
    /\ convert = NoCall
    /\ builder = NewBuilder

NextBuilder == \E fields \in FieldLists(MaxOrderFields), descParam \in BOOLEAN : OrderBy(fields, descParam)

SpecBuilder == InitBuilder /\ [][NextBuilder]_vars

\* C27: every call of order_by returns the builder; with fields it adds to
\* the query one ordering per field, descending when desc is true and
\* ascending otherwise; without fields it leaves the query as it was.
C27_Original ==
    [][(builder # NoCall /\ builder'.n = builder.n + 1) =>
          /\ builder'.result = "self"
          /\ builder'.orderings =
                builder.orderings \o
                [i \in 1..Len(builder'.fields) |->
                    IF builder'.desc THEN Descending(builder'.fields[i])
                    ELSE Ascending(builder'.fields[i])]]_vars

====
